---------------------------- MODULE Spec2Model ----------------------------
(***************************************************************************)
(* CS Agreement Closing: the settlement orchestrator (app.py,              *)
(* controller.process_agreements), the batch persistence log (the          *)
(* data/batch_NNN.json files) and the workflow finalization service        *)
(* (svc.py), with the VBO2 settlement session (vbo2.settle_agreement).     *)
(*                                                                         *)
(* Amounts are integers in cents (0.01 EUR = 1).  Python's None is the     *)
(* empty tuple, a present value v the one-element tuple <<v>>.             *)
(***************************************************************************)
EXTENDS Integers, Sequences, FiniteSets, TLC

\* ------------------------------------------------------------- bounds
\* Work items (rows of the user's excel sheet) of one interactive run.
MaxItems == 2
\* Processes (interactive runs of app.py, finalization runs of svc.py)
\* started in one behaviour.
MaxRuns == 3
\* Credit memo requests the external system creates in one behaviour.
MaxDocs == 2
\* Most modal dialogs open at once.
MaxDialogs == 2
\* Enter keys counted in one reopening of an agreement.
MaxPolls == 3
\* Rows of the table of workflow items.
MaxRows == 2
\* Approvers given to one change_sales_order call.
MaxApprovers == 2
\* Rows of the partner table of an order.
MaxPartnerRows == 2

\* ------------------------------------------------------------- values
None == <<>>
Some(v) == <<v>>

\* Number of an already issued rebate credit memo of an agreement (the
\* external system's document; requests are numbered 1, 2, ... here).
ExistingMemo == 900

RunCountries == {"SK"}
CompanyCodes == {"1001"}

\* ------------------------------------------------- vbo2: the settlement
\* What the external system answers for one agreement:
\*   popup   dialog shown after the agreement number is entered
\*   sbar    status bar after that: "" | "display" (Only display is
\*           possible) | "error" (does not exist / cannot be processed /
\*           already being processed)
\*   status  agreement status (KONA-BOSTA)
\*   press   answer to the 'Settle' button: "created" (dialog: a credit
\*           memo request was created) | "dialog" (another dialog) |
\*           "unavailable" (status bar: Function code cannot be selected,
\*           no dialog)
\*   memo    number of an existing rebate credit memo, or None
\*   request whether the created request is found in the document tree
Agreements ==
    [popup : {"none", "deletion", "stale"},
     sbar : {"", "display", "error"},
     open_val : {-5, 0, 5},
     open_accr : {-5000, 0, 1, 5000},
     status : {"A", "C", "D"},
     scales : BOOLEAN,
     press : {"created", "dialog", "unavailable"},
     memo : {None, Some(ExistingMemo)},
     request : BOOLEAN]

Max(x, y) == IF x >= y THEN x ELSE y
Abs(x) == IF x < 0 THEN -x ELSE x

InitResult ==
    [open_value |-> None, open_accruals |-> None,
     document_number |-> None, document_type |-> None,
     message |-> None, message_type |-> None]

\* A call's outcome: it raised, or returned `result`; `cmds` are the
\* commands it issued to the external system, in order.
Raised(exc, cmds) ==
    [raised |-> TRUE, exc |-> exc, result |-> InitResult, cmds |-> cmds]
Returned(result, cmds) ==
    [raised |-> FALSE, exc |-> "", result |-> result, cmds |-> cmds]

_go_to_start_window == <<"cancel", "start_transaction">>
_clear_input_field == <<"clear_input">>

\* Mutant of _find: "Only display is possible" is no keyword of the
\* warnings, the agreement counts as found and opened.
_find_display_unlisted(a, accept_inactive_accs, accept_outdated_vols) ==
    LET enter == <<"set_number", "enter">>
    IN  IF a.popup = "deletion" /\ ~accept_inactive_accs
        THEN [raised |-> TRUE, msg_type |-> "", msg |-> "",
              cmds |-> enter \o <<"confirm_popup", "cancel">>]
        ELSE IF a.popup = "stale" /\ ~accept_outdated_vols
        THEN [raised |-> TRUE, msg_type |-> "", msg |-> "",
              cmds |-> enter \o <<"confirm_popup">> \o _go_to_start_window]
        ELSE LET cmds == enter \o (IF a.popup = "none" THEN <<>>
                                   ELSE <<"confirm_popup">>)
             IN  IF a.sbar = "error"
                 THEN [raised |-> FALSE, msg_type |-> "E",
                       msg |-> "does not exist", cmds |-> cmds]
                 ELSE [raised |-> FALSE, msg_type |-> "I",
                       msg |-> "Agreement found and opened.", cmds |-> cmds]

\* _find: a declined dialog makes it return the dialog text, a string,
\* which the caller's tuple unpacking rejects (or _get_dialog_text asserts
\* on a window that is no dialog): the call raises.
_find(a, accept_inactive_accs, accept_outdated_vols) ==
    LET enter == <<"set_number", "enter">>
    IN  IF a.popup = "deletion" /\ ~accept_inactive_accs
        THEN [raised |-> TRUE, msg_type |-> "", msg |-> "",
              cmds |-> enter \o <<"confirm_popup", "cancel">>]
        ELSE IF a.popup = "stale" /\ ~accept_outdated_vols
        THEN [raised |-> TRUE, msg_type |-> "", msg |-> "",
              cmds |-> enter \o <<"confirm_popup">> \o _go_to_start_window]
        ELSE LET cmds == enter \o (IF a.popup = "none" THEN <<>>
                                   ELSE <<"confirm_popup">>)
             IN  IF a.sbar = "display"
                 THEN [raised |-> FALSE, msg_type |-> "W",
                       msg |-> "Only display is possible", cmds |-> cmds]
                 ELSE IF a.sbar = "error"
                 THEN [raised |-> FALSE, msg_type |-> "E",
                       msg |-> "does not exist", cmds |-> cmds]
                 ELSE [raised |-> FALSE, msg_type |-> "I",
                       msg |-> "Agreement found and opened.", cmds |-> cmds]

\* _get_document_number("memo"): the existing rebate credit memo.
_get_document_number_memo(a) ==
    IF a.memo = None
    THEN [num |-> None, msg |-> "No rebate credit memos exist",
          cmds |-> <<"rebate_payments">>]
    ELSE [num |-> a.memo, msg |-> "", cmds |-> <<"rebate_payments", "open_tree">>]

\* _get_document_number("request"): the request just created, numbered
\* `fresh` by the external system; None when the tree does not show it.
_get_document_number_request(a, fresh) ==
    [num |-> IF a.request THEN Some(fresh) ELSE None, msg |-> "",
     cmds |-> <<"rebate_payments", "open_tree">>]

_get_sales_volumes(a) ==
    [total |-> a.open_val, accruals |-> a.open_accr,
     cmds |-> <<"sales_volume", "cancel">>]

\* Mutant of EffectiveThreshold: the threshold is taken as given.
EffectiveThresholdNoFloor(thresh) == thresh

\* Mutant of OpenValueBlocks: only a positive open value stops.
OpenValueBlocksPositive(open_val) == open_val > 0

\* The value gate of settle_agreement.
OpenValueBlocks(open_val) == open_val # 0

\* The threshold gate of settle_agreement (the clamp included); the
\* condition scales are looked up only when the accruals reach it.
EffectiveThreshold(thresh) == Max(1, thresh)
\* Mutant of ThresholdBlocks: the condition scales are not looked at.
ThresholdBlocksWhateverScales(a, thresh) ==
    Abs(a.open_accr) >= EffectiveThreshold(thresh)

\* Mutant of ThresholdBlocks: accruals never stop the settlement.
ThresholdBlocksNever(a, thresh) == FALSE

ThresholdBlocks(a, thresh) ==
    Abs(a.open_accr) >= EffectiveThreshold(thresh) /\ ~a.scales
ThresholdCmds(a, thresh) ==
    IF Abs(a.open_accr) >= EffectiveThreshold(thresh)
    THEN <<"conditions", "back", "cancel">> ELSE <<>>

\* Mutant of SettledResult: the severity is left as it was.
SettledResultNoSeverity(read, num) ==
    [read EXCEPT !.document_type = Some("memo_request"),
                 !.document_number = num,
                 !.message = Some(<<"Agreement successfully settled.">>)]

\* settle_agreement, the result of a settlement the external system
\* confirmed ("A credit memo request was created for settlement").
SettledResult(read, num) ==
    [read EXCEPT !.document_type = Some("memo_request"),
                 !.document_number = num,
                 !.message = Some(<<"Agreement successfully settled.">>),
                 !.message_type = Some("I")]

settle_agreement(a, fresh, thresh, accept_inactive_accs, accept_outdated_vols) ==
    LET f == _find(a, accept_inactive_accs, accept_outdated_vols)
        memo == _get_document_number_memo(a)
        vols == _get_sales_volumes(a)
        req == _get_document_number_request(a, fresh)
        read == [InitResult EXCEPT !.open_value = Some(vols.total),
                                   !.open_accruals = Some(vols.accruals)]
    IN  IF f.raised THEN Raised("ValueError", f.cmds)
        ELSE IF f.msg_type = "E"
        THEN Returned([InitResult EXCEPT !.message = Some(<<f.msg>>),
                                         !.message_type = Some("E")],
                      f.cmds \o _go_to_start_window \o _clear_input_field)
        ELSE IF f.msg_type = "W"
        THEN Returned([read EXCEPT !.document_type = Some("credit_memo"),
                                   !.document_number = memo.num,
                                   !.message = Some(<<f.msg, memo.msg>>),
                                   !.message_type = Some("W")],
                      f.cmds \o memo.cmds \o vols.cmds
                        \o _go_to_start_window \o _clear_input_field)
        ELSE IF a.status \in {"C", "D"}
        THEN Returned([read EXCEPT !.document_type = Some("credit_memo"),
                                   !.document_number = memo.num,
                                   !.message = Some(<<"status does not permit", memo.msg>>),
                                   !.message_type = Some("E")],
                      f.cmds \o vols.cmds \o memo.cmds \o _go_to_start_window)
        ELSE IF OpenValueBlocks(vols.total)
        THEN Returned([read EXCEPT !.message = Some(<<"Open value is not 0 EUR.">>),
                                   !.message_type = Some("E")],
                      f.cmds \o vols.cmds \o _go_to_start_window)
        ELSE IF ThresholdBlocks(a, thresh)
        THEN Returned([read EXCEPT !.message = Some(<<"threshold">>),
                                   !.message_type = Some("E")],
                      f.cmds \o vols.cmds \o ThresholdCmds(a, thresh)
                        \o _go_to_start_window)
        ELSE LET pre == f.cmds \o vols.cmds \o ThresholdCmds(a, thresh)
                          \o <<"press_settle">>
             IN  IF a.press = "created"
                 THEN Returned(SettledResult(read, req.num),
                               pre \o <<"confirm_popup", "save", "enter">> \o req.cmds
                                 \o <<"cancel", "cancel">> \o _go_to_start_window)
                 ELSE IF a.press = "unavailable"
                 THEN Raised("AssertionError", pre)
                 ELSE Returned([read EXCEPT !.message = Some(<<"dialog text">>),
                                            !.message_type = Some("E")],
                               pre \o <<"confirm_popup">> \o _go_to_start_window)


\* Agreements the interactive run meets: one for each way settle_agreement
\* ends (the full set is explored by SpecSettle).
Typical ==
    [popup |-> "none", sbar |-> "", open_val |-> 0, open_accr |-> 5000,
     status |-> "A", scales |-> FALSE, press |-> "created", memo |-> None,
     request |-> TRUE]
OrchAgreements ==
    {Typical,
     [Typical EXCEPT !.popup = "deletion"],
     [Typical EXCEPT !.popup = "stale"],
     [Typical EXCEPT !.sbar = "error"],
     [Typical EXCEPT !.sbar = "display", !.memo = Some(ExistingMemo), !.open_val = 5],
     [Typical EXCEPT !.sbar = "display"],
     [Typical EXCEPT !.status = "C", !.memo = Some(ExistingMemo)],
     [Typical EXCEPT !.open_val = 5],
     [Typical EXCEPT !.press = "dialog"],
     [Typical EXCEPT !.press = "unavailable"],
     [Typical EXCEPT !.request = FALSE]}

\* rules["threshold"] of the country (cents): 50 EUR of accruals with
\* unchecked scales pass the second and are stopped by the first.
RuleThresholds == {-100, 6000}

\* process_agreements, line 434: the threshold given to settle_agreement.
RuleThreshold(t) == Max(t, 0)

\* ------------------------------------------------------------ variables
VARIABLES
    files,        \* data/batch_<id>.json: the content of each file
    next_doc,     \* external system: number of the next credit memo request
    dump,         \* dump/data_<nth>_<date>.pkl: the snapshot the run wrote
    \* the interactive run (app.py main -> process_agreements)
    opc,          \* where the process is
    orun,         \* runs started so far
    n_items,      \* data.shape[0]
    thresh,       \* max(rules["threshold"], 0)
    cocd,         \* company code of the run
    oi,           \* position of the loop over data.itertuples(), from 1
    output,       \* the output DataFrame, one row per work item
    result,       \* the result of the last settle_agreement call
    batch_idx,    \* id of the batch file of the run
    content,      \* _update_batch_data: the content read and appended to
    vbo2_sess,    \* vbo2._sess is bound
    va02_sess,    \* va02._sess is bound
    \* the finalization run (svc.py main)
    rpc,          \* where the process is
    rrun,         \* runs started so far
    rexit,        \* what main returned, None while it runs
    batches,      \* what load_data_batches returned: name -> content
    todo,         \* names the loop over batches.items() has yet to visit
    rb,           \* name of the batch being processed, 0 before the loop
    calls,        \* history: the process_workflow calls of the current
                  \* finalize_workflow, each with how it ended
    so01_sess,    \* so01._sess is bound
    plog,         \* history: <<run, number>> of every process_workflow call
    \* settle_agreement on its own (SpecSettle)
    sa_in,        \* the call's arguments
    sa_out,       \* the call's outcome, None before the call
    \* the batch files on their own (SpecBatch)
    made,         \* history: the ids _create_batch_file returned, in order
    cut,          \* history: Len(made) when a file was last removed
    \* the session modules on their own (SpecSession)
    mods,         \* the globals of vbo2, va02 and so01
    last,         \* history: the last call, what it did and how it ended
    \* one batch written and read back (SpecRoundTrip)
    want,         \* what the writer is given: country, company code, numbers
    wrote,        \* numbers appended so far
    got_id,       \* what _create_batch_file returned, 0 before the call
    reloaded,     \* what load_data_batches returned, None before the call
    \* app.py main around process_agreements (SpecApp)
    apc,          \* where main is
    astep,        \* position in the initialization phase, from 1
    aexit,        \* what main returned, None while it runs
    araised,      \* the exception that ended the initialization, if any
    app_sess,     \* sess: the connection to SAP is open
    logins,       \* history: sap.login calls
    reports,      \* history: reports created
    \* the modal dialogs and the loops that dismiss them (SpecDialog)
    wnds,         \* the open modal dialogs, the active one first
    dpc,          \* the loop that runs, or how it ended
    dlast,        \* history: the last _close_popup_dialog call
    \* settle_agreement after a confirmed settlement (SpecReopen)
    wpc,          \* where settle_agreement is
    processing,   \* external system: the settlement is still processed
    stat_bar,     \* _stat_bar.text
    enters,       \* history: Enter keys _reopen_agreement has sent
    \* so01.process_workflow on its own (SpecWorkflow)
    wf_in,        \* the call's arguments and what the external system shows
    wf_out,       \* the call's outcome, None before the call
    \* va02.change_sales_order on its own (SpecOrder)
    cso_in,       \* the call's arguments and what the external system shows
    cso_out       \* the call's outcome, None before the call

vars ==
    <<files, next_doc, dump, opc, orun, n_items, thresh, cocd, oi,
      output, result, batch_idx, content, vbo2_sess, va02_sess, rpc, rrun,
      rexit, batches, todo, rb, calls, so01_sess, plog, sa_in, sa_out,
      made, cut, mods, last, want, wrote, got_id, reloaded, apc, astep,
      aexit, araised, app_sess, logins, reports, wnds, dpc, dlast,
      wpc, processing, stat_bar, enters, wf_in, wf_out,
      cso_in, cso_out>>

storage == <<files, dump>>
orch == <<opc, orun, n_items, thresh, cocd, oi, output, result,
          batch_idx, content, vbo2_sess, va02_sess>>
runner == <<rpc, rrun, rexit, batches, todo, rb, calls, so01_sess, plog>>
settle == <<sa_in, sa_out>>
batchlog == <<made, cut>>
sessions == <<mods, last>>
roundtrip == <<want, wrote, got_id, reloaded>>
appl == <<apc, astep, aexit, araised, app_sess, logins, reports>>
dialogs == <<wnds, dpc, dlast>>
\* The parts of the three modules that are followed on their own.
reopening == <<wpc, processing, stat_bar, enters>>
workflow == <<wf_in, wf_out>>
order == <<cso_in, cso_out>>
gui == <<dialogs, reopening, workflow, order>>
\* What the interactive run and the finalization run leave alone.
apart == <<settle, batchlog, sessions, roundtrip, appl, gui>>

\* ------------------------------------------------- the batch files
\* One file per interactive run at most.
FileIds == 1..MaxRuns

NoFile ==
    [st |-> "absent", country |-> "", company_code |-> "", credit_memos |-> <<>>]
\* A file just opened for writing: it exists and holds nothing yet.
EmptyFile ==
    [st |-> "empty", country |-> "", company_code |-> "", credit_memos |-> <<>>]

\* json.dump writes an int as its decimal digits and a str between
\* quotes; json.loads reads them back.
DigitChars == <<"0", "1", "2", "3", "4", "5", "6", "7", "8", "9">>
DigitOf(c) == CHOOSE d \in 0..9 : DigitChars[d + 1] = c

RECURSIVE Digits(_)
Digits(n) ==
    IF n < 0 THEN <<"-">> \o Digits(-n)
    ELSE IF n < 10 THEN <<DigitChars[n + 1]>>
    ELSE Append(Digits(n \div 10), DigitChars[(n % 10) + 1])

RECURSIVE Number(_)
Number(ds) ==
    IF ds = <<>> THEN 0
    ELSE IF ds[1] = "-" THEN -Number(Tail(ds))
    ELSE 10 * Number(SubSeq(ds, 1, Len(ds) - 1)) + DigitOf(ds[Len(ds)])

Quoted(str) == <<"\"", str, "\"">>
Unquoted(q) == q[2]

\* json.dump / json.loads of a batch; the text of a file that holds
\* nothing is no JSON document.
json_dump(batch) ==
    [st |-> "json", country |-> Quoted(batch.country),
     company_code |-> Quoted(batch.company_code),
     credit_memos |-> [k \in 1..Len(batch.credit_memos) |->
                         Digits(batch.credit_memos[k])]]
json_valid(text) == text.st = "json"
json_loads(text) ==
    [country |-> Unquoted(text.country),
     company_code |-> Unquoted(text.company_code),
     credit_memos |-> [k \in 1..Len(text.credit_memos) |->
                         Number(text.credit_memos[k])]]

isfile(batch_id) == batch_id \in FileIds /\ files[batch_id].st # "absent"

\* Mutant of FirstUnused: one more than the highest index with a file.
AfterLast(nth) ==
    IF \E b \in FileIds : b >= nth /\ isfile(b)
    THEN 1 + CHOOSE b \in FileIds :
                 /\ b >= nth /\ isfile(b)
                 /\ \A c \in FileIds : isfile(c) => c <= b
    ELSE nth

\* Mutant of FirstUnused: the loop over the existing files is missing.
FirstUnusedNoLoop(nth) == nth

\* _create_batch_file: the first index with no file.
RECURSIVE FirstUnused(_)
FirstUnused(nth) == IF isfile(nth) THEN FirstUnused(nth + 1) ELSE nth

Country(company_code) == CHOOSE c \in RunCountries : TRUE

new_batch(country, company_code) ==
    [country |-> country, company_code |-> company_code, credit_memos |-> <<>>]

\* Mutant of AppendMemo: the number is put in front.
PrependMemo(batch, memo) ==
    [batch EXCEPT !.credit_memos = <<memo>> \o @]

OnlyMemo(batch, memo) ==
    [batch EXCEPT !.credit_memos = <<memo>>]

\* _update_batch_data: content["credit_memos"].append(memo)
AppendMemo(batch, memo) ==
    [batch EXCEPT !.credit_memos = Append(@, memo)]

\* ------------------------------------------------- the interactive run
\* A row of `output`; document_type and va02 are history (the kind of the
\* settle result, and whether VA02 was started for the item), no columns.
BlankRow ==
    [Message |-> <<>>, Credit_Memo |-> None, Open_Value |-> None,
     Open_Accruals |-> None, document_type |-> None, va02 |-> FALSE]

ErrChangingOrder == "Error changing the sales order!"

\* Mutant of Index: every result is written to the first row.
IndexOfFirst(i) == 1

\* row.Index of the i-th row of data.itertuples(): the label of the row
\* in data and in output (rows are counted from 1 here).
Index(i) == i

OrchRunning ==
    {"create", "create_write", "loop", "amend", "append_read",
     "append_trunc", "append_write"}
OrchEnded == {"done", "aborted", "rejected", "crashed"}

\* Mutant of NoFollowUp: a credit memo's number is followed up too.
NoFollowUpNumberOnly(res) == res.document_number = None

\* process_agreements, line 478: nothing more to do for the item.
NoFollowUp(res) ==
    res.document_number = None \/ res.document_type = Some("credit_memo")

\* _dump_data: the snapshot file (those of earlier runs are left out).
_dump_data(data) == dump' = Some(data)

\* Mutant of AfterEmptyCheck: the data are not checked for rows.
AfterEmptyCheckMissing(n) == "create"

\* process_agreements, lines 429-430: ValueError for data without rows,
\* before anything else is done.
AfterEmptyCheck(n) == IF n = 0 THEN "rejected" ELSE "create"

\* app.py is started (by a user's mail); process_agreements is entered.
ProcessAgreements ==
    /\ opc = "idle"
    /\ orun + rrun < MaxRuns
    /\ orun' = orun + 1
    /\ dump' = None
    /\ \E n \in 0..MaxItems, t \in RuleThresholds, c \in CompanyCodes :
        /\ n_items' = n
        /\ thresh' = RuleThreshold(t)
        /\ cocd' = c
        /\ output' = [i \in 1..n |-> BlankRow]
        /\ opc' = AfterEmptyCheck(n)
    /\ oi' = 0
    /\ UNCHANGED <<result, batch_idx, content, vbo2_sess, va02_sess>>
    /\ UNCHANGED <<files, next_doc, runner, apart>>

\* app.py is started while no finalization run is on.
OrchStart == rpc = "idle" /\ ProcessAgreements

\* _create_batch_file, open(file_path, "w"): the file exists, empty.
CreateBatchOpen ==
    /\ opc = "create"
    /\ batch_idx' = FirstUnused(1)
    /\ files' = [files EXCEPT ![FirstUnused(1)] = EmptyFile]
    /\ opc' = "create_write"
    /\ UNCHANGED <<orun, n_items, thresh, cocd, oi, output, result,
                   content, vbo2_sess, va02_sess>>
    /\ UNCHANGED <<dump, next_doc, runner, apart>>

\* _create_batch_file, json.dump and close.
CreateBatchWrite ==
    /\ opc = "create_write"
    /\ files' = [files EXCEPT
                   ![batch_idx] = json_dump(new_batch(Country(cocd), cocd))]
    /\ opc' = "loop"
    /\ oi' = 1
    /\ UNCHANGED <<orun, n_items, thresh, cocd, output, result,
                   batch_idx, content, vbo2_sess, va02_sess>>
    /\ UNCHANGED <<dump, next_doc, runner, apart>>

\* The external system creates a request when Settle is pressed and it
\* answers "created".
Creates(out, a) ==
    /\ ~out.raised
    /\ out.result.document_type = Some("memo_request")

\* Mutant of OnItemException: the run goes on with the next item.
OnItemExceptionContinues == "loop"

\* process_agreements, lines 509-512: where the run goes when an
\* exception leaves the per-item block (after the dump): it is raised on.
OnItemException == "aborted"

\* One item up to the amendment: vbo2.start, settle_agreement, the row,
\* and either `continue` or vbo2.close and va02.start.
SettleItem ==
    /\ opc = "loop" /\ oi <= n_items
    /\ \E a \in OrchAgreements :
        LET out == settle_agreement(a, next_doc, thresh, TRUE, FALSE)
            res == out.result
        IN  /\ Creates(out, a) => next_doc <= MaxDocs
            /\ next_doc' = IF Creates(out, a) THEN next_doc + 1 ELSE next_doc
            /\ IF out.raised
               THEN /\ _dump_data(output)
                    /\ opc' = OnItemException
                    /\ oi' = IF OnItemException = "loop" THEN oi + 1 ELSE oi
                    /\ vbo2_sess' = TRUE
                    /\ UNCHANGED <<output, result, va02_sess>>
               ELSE /\ result' = res
                    /\ output' = [output EXCEPT ![Index(oi)] =
                          [Message |-> res.message[1],
                           Credit_Memo |-> res.document_number,
                           Open_Value |-> res.open_value,
                           Open_Accruals |-> res.open_accruals,
                           document_type |-> res.document_type,
                           va02 |-> ~NoFollowUp(res)]]
                    /\ IF NoFollowUp(res)
                       THEN /\ oi' = oi + 1
                            /\ opc' = "loop"
                            /\ vbo2_sess' = TRUE
                            /\ UNCHANGED va02_sess
                       ELSE /\ vbo2_sess' = FALSE
                            /\ va02_sess' = TRUE
                            /\ opc' = "amend"
                            /\ UNCHANGED oi
                    /\ UNCHANGED dump
    /\ UNCHANGED <<orun, n_items, thresh, cocd, batch_idx, content>>
    /\ UNCHANGED <<files, runner, apart>>

\* What change_sales_order can raise (va02.py lines 317-337); "" is none.
AmendErrors ==
    {"", "AuthorizationMissingError", "RuntimeError", "ValueError",
     "FileNotFoundError"}

\* Mutant of AfterAmendment: the exception is not caught.
AfterAmendmentRaises(exc) == IF exc = "" THEN "append_read" ELSE "aborted"

\* process_agreements, lines 489-502: where the run goes after
\* change_sales_order ended with `exc`: the except clause takes it.
AfterAmendment(exc) == "append_read"

\* The amendment: change_sales_order, its except and finally clauses.
ChangeSalesOrder ==
    /\ opc = "amend"
    /\ \E exc \in AmendErrors :
        /\ output' = [output EXCEPT ![Index(oi)].Message =
              IF exc = "" THEN @ ELSE @ \o <<ErrChangingOrder, exc>>]
        /\ opc' = AfterAmendment(exc)
        /\ IF AfterAmendment(exc) = "aborted"
           THEN _dump_data(output) ELSE UNCHANGED dump
    /\ va02_sess' = FALSE
    /\ UNCHANGED <<orun, n_items, thresh, cocd, oi, result, batch_idx,
                   content, vbo2_sess>>
    /\ UNCHANGED <<files, next_doc, runner, apart>>

\* _update_batch_data, the first `with`: read, parse, append in memory.
UpdateBatchRead ==
    /\ opc = "append_read"
    /\ IF isfile(batch_idx) /\ json_valid(files[batch_idx])
       THEN /\ content' = AppendMemo(json_loads(files[batch_idx]),
                                     result.document_number[1])
            /\ opc' = "append_trunc"
            /\ UNCHANGED dump
       ELSE /\ _dump_data(output)
            /\ opc' = OnItemException
            /\ UNCHANGED content
    /\ UNCHANGED <<orun, n_items, thresh, cocd, oi, output, result,
                   batch_idx, vbo2_sess, va02_sess>>
    /\ UNCHANGED <<files, next_doc, runner, apart>>

\* _update_batch_data, open(file_path, "w"): the file is truncated.
UpdateBatchTrunc ==
    /\ opc = "append_trunc"
    /\ files' = [files EXCEPT ![batch_idx] = EmptyFile]
    /\ opc' = "append_write"
    /\ UNCHANGED <<orun, n_items, thresh, cocd, oi, output, result,
                   batch_idx, content, vbo2_sess, va02_sess>>
    /\ UNCHANGED <<dump, next_doc, runner, apart>>

\* Mutant of AfterAppend: a batch file is created for the next item.
AfterAppendCreates == "create"

\* process_agreements, line 504: after _update_batch_data the loop over
\* the items goes on, with the batch file of the run.
AfterAppend == "loop"

\* _update_batch_data, json.dump and close; the loop goes on.
UpdateBatchWrite ==
    /\ opc = "append_write"
    /\ files' = [files EXCEPT ![batch_idx] = json_dump(content)]
    /\ opc' = AfterAppend
    /\ oi' = oi + 1
    /\ UNCHANGED <<orun, n_items, thresh, cocd, output, result,
                   batch_idx, content, vbo2_sess, va02_sess>>
    /\ UNCHANGED <<dump, next_doc, runner, apart>>

\* The loop is over: process_agreements returns output.
OrchReturn ==
    /\ opc = "loop" /\ oi > n_items
    /\ opc' = "done"
    /\ UNCHANGED <<orun, n_items, thresh, cocd, oi, output, result,
                   batch_idx, content, vbo2_sess, va02_sess>>
    /\ UNCHANGED <<storage, next_doc, runner, apart>>

\* The process is terminated from outside, wherever it is.
OrchCrash ==
    /\ opc \in OrchRunning
    /\ opc' = "crashed"
    /\ UNCHANGED <<orun, n_items, thresh, cocd, oi, output, result,
                   batch_idx, content, vbo2_sess, va02_sess>>
    /\ UNCHANGED <<storage, next_doc, runner, apart>>

\* The process, with all it held in memory, is gone.
OrchExit ==
    /\ opc \in OrchEnded
    /\ opc' = "idle"
    /\ n_items' = 0 /\ thresh' = 0 /\ cocd' = "" /\ oi' = 0
    /\ output' = <<>> /\ result' = InitResult /\ batch_idx' = 0
    /\ content' = new_batch("", "")
    /\ vbo2_sess' = FALSE /\ va02_sess' = FALSE
    /\ UNCHANGED orun
    /\ UNCHANGED <<storage, next_doc, runner, apart>>

\* ------------------------------------------------- the finalization run
\* load_data_batches: every file of the data directory, parsed.
LoadableFiles == {b \in FileIds : isfile(b)}
load_data_batches == [b \in LoadableFiles |-> json_loads(files[b])]

NoBatches == [b \in {} |-> new_batch("", "")]

\* Mutant of ReturnNoBatches: nothing to do is reported as a failure.
ReturnNoBatchesFailure == Some(3)

\* svc.py main, lines 56-57: what it returns when no batch was loaded.
ReturnNoBatches == Some(0)

\* svc.py is started (by the scheduler); main loads the batches.
LoadBatches ==
    /\ rpc = "idle"
    /\ orun + rrun < MaxRuns
    /\ rrun' = rrun + 1
    /\ IF \E b \in LoadableFiles : ~json_valid(files[b])
       THEN /\ rpc' = "exit" /\ rexit' = Some(3)
            /\ UNCHANGED <<batches, todo>>
       ELSE /\ batches' = load_data_batches
            /\ todo' = LoadableFiles
            /\ IF LoadableFiles = {}
               THEN rpc' = "exit" /\ rexit' = ReturnNoBatches
               ELSE rpc' = "next" /\ UNCHANGED rexit
    /\ UNCHANGED <<rb, calls, so01_sess, plog>>
    /\ UNCHANGED <<storage, next_doc, orch, apart>>

\* svc.py is started while no interactive run is on.
RunnerStart == opc = "idle" /\ LoadBatches

\* The loop over batches.items() takes the next batch; finalize_workflow
\* starts SO01 and gets the item table.
FinalizeStart ==
    /\ rpc = "next"
    /\ \E b \in todo :
        /\ rb' = b
        /\ todo' = todo \ {b}
    /\ so01_sess' = TRUE
    /\ calls' = <<>>
    /\ rpc' = "items"
    /\ UNCHANGED <<rrun, rexit, batches, plog>>
    /\ UNCHANGED <<storage, next_doc, orch, apart>>

\* Mutant of AfterProcessWorkflow: a number not found ends the loop.
AfterProcessWorkflowStopsOnMiss(out) ==
    IF out = "raise" THEN "exit" ELSE IF out = "found" THEN "items" ELSE "remove"

\* Mutant of AfterProcessWorkflow: an exception is logged like a miss.
AfterProcessWorkflowSwallows(out) == "items"

\* finalize_workflow, line 389: where the run goes after process_workflow
\* ended with `out` ("found", "not_found", or "raise" for an exception).
AfterProcessWorkflow(out) == IF out = "raise" THEN "exit" ELSE "items"

\* An exception left the last process_workflow call.
WorkflowRaised == calls # <<>> /\ calls[Len(calls)].out = "raise"

\* finalize_workflow: one turn of the loop over nums.
ProcessWorkflow ==
    /\ rpc = "items" /\ ~WorkflowRaised
    /\ Len(calls) < Len(batches[rb].credit_memos)
    /\ LET num == batches[rb].credit_memos[Len(calls) + 1]
       IN  /\ plog' = plog \cup {<<rrun, num>>}
           /\ \E out \in {"found", "not_found", "raise"} :
               /\ rpc' = AfterProcessWorkflow(out)
               /\ rexit' = IF AfterProcessWorkflow(out) = "exit" THEN Some(3) ELSE None
               /\ calls' = Append(calls, [num |-> num, out |-> out])
    /\ UNCHANGED <<rrun, batches, todo, rb, so01_sess>>
    /\ UNCHANGED <<storage, next_doc, orch, apart>>

\* finalize_workflow: the loop over nums is over, so01.close().
FinalizeClose ==
    /\ rpc = "items" /\ ~WorkflowRaised
    /\ Len(calls) >= Len(batches[rb].credit_memos)
    /\ so01_sess' = FALSE
    /\ rpc' = "remove"
    /\ UNCHANGED <<rrun, rexit, batches, todo, rb, calls, plog>>
    /\ UNCHANGED <<storage, next_doc, orch, apart>>

\* remove_data_batch: os.remove, whose failure is logged and swallowed.
remove(name, ok) ==
    IF ok /\ isfile(name) THEN [files EXCEPT ![name] = NoFile] ELSE files

RemoveDataBatch ==
    /\ rpc = "remove"
    /\ \E ok \in BOOLEAN : files' = remove(rb, ok)
    /\ rpc' = "next"
    /\ UNCHANGED <<rrun, rexit, batches, todo, rb, calls, so01_sess, plog>>
    /\ UNCHANGED <<dump, next_doc, orch, apart>>

\* The loop over the batches is over.
RunnerReturn ==
    /\ rpc = "next" /\ todo = {}
    /\ rpc' = "exit" /\ rexit' = Some(0)
    /\ UNCHANGED <<rrun, batches, todo, rb, calls, so01_sess, plog>>
    /\ UNCHANGED <<storage, next_doc, orch, apart>>

\* main has returned rexit; the process, with all it held, is gone.
RunnerExit ==
    /\ rpc = "exit"
    /\ rexit' = None
    /\ rpc' = "idle"
    /\ batches' = NoBatches /\ todo' = {} /\ rb' = 0 /\ calls' = <<>>
    /\ so01_sess' = FALSE
    /\ UNCHANGED <<rrun, plog>>
    /\ UNCHANGED <<storage, next_doc, orch, apart>>

\* ------------------------------------------------- settle_agreement alone
SettleThresholds == {-100, 0, 4000, 6000}
SettleInputs ==
    [a : Agreements, thresh : SettleThresholds,
     accept_inactive_accs : BOOLEAN, accept_outdated_vols : BOOLEAN]

SettleCall ==
    /\ sa_out = None
    /\ sa_out' = Some(settle_agreement(sa_in.a, 1, sa_in.thresh,
                      sa_in.accept_inactive_accs, sa_in.accept_outdated_vols))
    /\ UNCHANGED sa_in
    /\ UNCHANGED <<storage, next_doc, orch, runner, batchlog, sessions,
                   roundtrip, appl, gui>>

\* ------------------------------------------------- the session modules
SessionNames == {"vbo2", "va02", "so01"}

\* The module globals start binds; a module that has no such global
\* keeps None there.
Unbound ==
    [sess |-> None, main_wnd |-> None, stat_bar |-> None,
     tool_bar |-> None, menu_bar |-> None, user_area |-> None]

\* A call of a session module: the globals before it, the commands it
\* issued to the external system, the exception that left it ("" none).
NoCall ==
    [mod |-> "", op |-> "", arg |-> None, pre |-> Unbound, cmds |-> <<>>,
     exc |-> ""]

\* The GuiSession objects a caller can hand to start.
GuiSessions == {"s1", "s2"}

Result(handles, cmds, exc) == [handles |-> handles, cmds |-> cmds, exc |-> exc]

\* start, the assignments to the globals: each module binds its own.
Bound(h, m, s) ==
    IF m = "vbo2"
    THEN [h EXCEPT !.sess = Some(s), !.main_wnd = Some(<<s, "wnd[0]">>),
                   !.stat_bar = Some(<<s, "sbar">>),
                   !.tool_bar = Some(<<s, "tbar[1]">>),
                   !.menu_bar = Some(<<s, "mbar">>)]
    ELSE IF m = "va02"
    THEN [h EXCEPT !.sess = Some(s), !.main_wnd = Some(<<s, "wnd[0]">>),
                   !.stat_bar = Some(<<s, "sbar">>),
                   !.user_area = Some(<<s, "usr">>)]
    ELSE [h EXCEPT !.sess = Some(s), !.main_wnd = Some(<<s, "wnd[0]">>),
                   !.user_area = Some(<<s, "usr">>)]

\* close, the assignments to the globals: va02.close leaves _user_area.
Cleared(h, m) ==
    IF m = "vbo2"
    THEN [h EXCEPT !.sess = None, !.main_wnd = None, !.stat_bar = None,
                   !.tool_bar = None, !.menu_bar = None]
    ELSE IF m = "va02"
    THEN [h EXCEPT !.sess = None, !.main_wnd = None, !.stat_bar = None]
    ELSE [h EXCEPT !.sess = None, !.main_wnd = None, !.user_area = None]

StartCmds(m) ==
    IF m = "va02" THEN <<"StartTransaction", "clear_input">>
    ELSE <<"StartTransaction">>

\* Mutant of start: a running transaction is started again.
start_again(h, m, sess) ==
    IF sess = None THEN Result(h, <<>>, "UnboundLocalError")
    ELSE Result(Bound(h, m, sess[1]), StartCmds(m), "")

\* Mutant of start: the handle is not checked.
start_unchecked(h, m, sess) ==
    IF h.sess # None THEN Result(h, <<>>, "")
    ELSE IF sess = None THEN Result(h, <<>>, "AttributeError")
    ELSE Result(Bound(h, m, sess[1]), StartCmds(m), "")

\* start(sess) of module m, whose globals are h.
start(h, m, sess) ==
    IF h.sess # None THEN Result(h, <<>>, "")
    ELSE IF sess = None THEN Result(h, <<>>, "UnboundLocalError")
    ELSE Result(Bound(h, m, sess[1]), StartCmds(m), "")

\* Mutant of close: the transaction is ended whether started or not.
close_unguarded(h, m, end_ok, dlg) ==
    IF h.sess = None THEN Result(h, <<>>, "AttributeError")
    ELSE IF ~end_ok THEN Result(h, <<"EndTransaction">>, "com_error")
    ELSE IF dlg = "fails"
    THEN Result(h, <<"EndTransaction", "confirm_popup">>, "com_error")
    ELSE Result(Cleared(h, m),
                IF dlg = "none" THEN <<"EndTransaction">>
                ELSE <<"EndTransaction", "confirm_popup">>, "")

\* close() of module m.  The external system ends the transaction or
\* fails to (end_ok); after that a dialog is open or not, and confirming
\* it works or fails (dlg).  No statement of close catches a failure.
close(h, m, end_ok, dlg) ==
    IF h.sess = None THEN Result(h, <<>>, "")
    ELSE IF ~end_ok THEN Result(h, <<"EndTransaction">>, "com_error")
    ELSE IF dlg = "fails"
    THEN Result(h, <<"EndTransaction", "confirm_popup">>, "com_error")
    ELSE Result(Cleared(h, m),
                IF dlg = "none" THEN <<"EndTransaction">>
                ELSE <<"EndTransaction", "confirm_popup">>, "")

\* The operations of each module that work in its transaction.
DomainOps(m) ==
    IF m = "vbo2" THEN {"settle_agreement"}
    ELSE IF m = "va02" THEN {"change_sales_order", "get_printing_status"}
    ELSE {"get_item_table", "process_workflow"}

\* so01.process_workflow(items, kwd): it does not look at _sess.  It
\* reads the rows of `items`; at a row that matches it opens the item
\* and looks the decision step up under _user_area.
process_workflow(h, table) ==
    IF table = "no_match" THEN Result(h, <<"RowCount", "GetCellValue">>, "")
    ELSE IF h.user_area = None
    THEN Result(h, <<"RowCount", "GetCellValue", "DoubleClickCurrentCell">>,
                "AttributeError")
    ELSE Result(h, <<"RowCount", "GetCellValue", "DoubleClickCurrentCell",
                     "SapEvent", "set_rejection_reason">>, "")

\* The check that opens settle_agreement, change_sales_order,
\* get_printing_status and get_item_table; behind it the operation works
\* on the external system (what it does there is not followed here).
Guarded(h, op) ==
    IF h.sess = None THEN Result(h, <<>>, "TransactionClosedError")
    ELSE Result(h, <<op>>, "")

Call(m, op, arg, r) ==
    /\ mods' = [mods EXCEPT ![m] = r.handles]
    /\ last' = [mod |-> m, op |-> op, arg |-> arg, pre |-> mods[m],
                cmds |-> r.cmds, exc |-> r.exc]
    /\ UNCHANGED <<storage, next_doc, orch, runner, settle, batchlog,
                   roundtrip, appl, gui>>

SessStart ==
    \E m \in SessionNames, sess \in {None} \cup {Some(s) : s \in GuiSessions} :
        Call(m, "start", sess, start(mods[m], m, sess))

SessClose ==
    \E m \in SessionNames, end_ok \in BOOLEAN, dlg \in {"none", "confirmed", "fails"} :
        Call(m, "close", None, close(mods[m], m, end_ok, dlg))

SessOperation ==
    \E m \in SessionNames :
        \E op \in DomainOps(m) \ {"process_workflow"} :
            Call(m, op, None, Guarded(mods[m], op))

SessProcessWorkflow ==
    \E table \in {"match", "no_match"} :
        Call("so01", "process_workflow", Some(table),
             process_workflow(mods["so01"], table))

\* ------------------------------------------------- the batch files alone
\* A batch file as _create_batch_file leaves it.
FreshFile == json_dump(new_batch(Country("1001"), "1001"))

\* The data directory holding the files of the ids in S.
Directory(S) == [b \in FileIds |-> IF b \in S THEN FreshFile ELSE NoFile]

\* _create_batch_file as a whole (the loop over nth, open, json.dump).
CreateBatchFile ==
    /\ Len(made) < MaxRuns
    /\ FirstUnused(1) \in FileIds
    /\ files' = [files EXCEPT ![FirstUnused(1)] = FreshFile]
    /\ made' = Append(made, FirstUnused(1))
    /\ UNCHANGED <<cut, dump, next_doc, orch, runner, settle, sessions,
                   roundtrip, appl, gui>>

\* remove_data_batch for any file of the directory.
RemoveBatchFile ==
    /\ \E b \in FileIds, ok \in BOOLEAN :
        /\ isfile(b)
        /\ files' = remove(b, ok)
        /\ cut' = IF ok THEN Len(made) ELSE cut
    /\ UNCHANGED <<made, dump, next_doc, orch, runner, settle, sessions,
                   roundtrip, appl, gui>>

\* --------------------------- settle_agreement as process_agreements calls it
\* rules["threshold"] of a country, in cents.
Rules == {-100, 0, 1, 2, 5000, 6000}
RuleInputs == [a : Agreements, rule : Rules]

RuleSettleCall ==
    /\ sa_out = None
    /\ sa_out' = Some(settle_agreement(sa_in.a, 1, RuleThreshold(sa_in.rule),
                                       TRUE, FALSE))
    /\ UNCHANGED sa_in
    /\ UNCHANGED <<storage, next_doc, orch, runner, batchlog, sessions,
                   roundtrip, appl, gui>>

\* ------------------------------------------ one batch, written and read

\* Numbers of credit memo requests as the external system gives them.
MemoNumbers == {7, 40, 305}

\* The lists of up to MaxItems numbers.
MemoLists == UNION {[1..n -> MemoNumbers] : n \in 0..MaxItems}

\* The country and company code of a run.
RunKeys == {<<"SK", "1001">>, <<"CZ", "1072">>}

\* _create_batch_file(country, company_code) as a whole.
WriterCreate ==
    /\ got_id = 0
    /\ FirstUnused(1) \in FileIds
    /\ got_id' = FirstUnused(1)
    /\ files' = [files EXCEPT ![FirstUnused(1)] =
                    json_dump(new_batch(want.country, want.company_code))]
    /\ UNCHANGED <<want, wrote, reloaded>>
    /\ UNCHANGED <<dump, next_doc, orch, runner, settle, batchlog, sessions,
                   appl, gui>>

\* _update_batch_data(batch_idx, memo) as a whole: read, append, rewrite.
WriterAppend ==
    /\ got_id # 0 /\ reloaded = None
    /\ wrote < Len(want.credit_memos)
    /\ files' = [files EXCEPT ![got_id] =
                    json_dump(AppendMemo(json_loads(files[got_id]),
                                         want.credit_memos[wrote + 1]))]
    /\ wrote' = wrote + 1
    /\ UNCHANGED <<want, got_id, reloaded>>
    /\ UNCHANGED <<dump, next_doc, orch, runner, settle, batchlog, sessions,
                   appl, gui>>

\* load_data_batches() once the writer is through.
ReaderLoad ==
    /\ got_id # 0 /\ reloaded = None
    /\ wrote = Len(want.credit_memos)
    /\ reloaded' = Some(load_data_batches)
    /\ UNCHANGED <<want, wrote, got_id>>
    /\ UNCHANGED <<storage, next_doc, orch, runner, settle, batchlog,
                   sessions, appl, gui>>

\* --------------------------------------------------------- app.py main

\* Mutant of InitSteps: the connection is made before the message is read.
InitStepsConnectFirst == <<"config", "connect", "input", "rules">>

\* main, lines 45-48: the calls of the initialization phase, in order.
InitSteps == <<"config", "input", "rules", "connect">>

\* How get_user_input ends: with the parameters, or with an exception of
\* its own or of the mails module.
UserInputOutcomes ==
    {"ok", "ValueError", "MessageNotFoundError", "AttachmentSavingError",
     "RuntimeError"}

OtherAppl == <<storage, next_doc, orch, runner, settle, batchlog, sessions,
               roundtrip, gui>>

\* The next call of the initialization phase, or processing after the last.
InitStepDone ==
    /\ IF astep < Len(InitSteps)
       THEN astep' = astep + 1 /\ apc' = "init"
       ELSE astep' = astep /\ apc' = "process"
    /\ UNCHANGED <<aexit, araised>>

\* main, lines 49-52: any exception of the phase is logged, main returns 2.
InitStepFailed(exc) ==
    /\ apc' = "exited"
    /\ aexit' = Some(2)
    /\ araised' = Some(exc)
    /\ UNCHANGED astep

\* main, lines 76-84: the exception is logged, the finally clause removes
\* the temporary files and disconnects, main returns 3.
ProcessingFailed ==
    /\ apc' = "exited"
    /\ aexit' = Some(3)
    /\ app_sess' = FALSE

\* app.py is started with an email id.
AppStart ==
    /\ apc = "idle" /\ aexit = None
    /\ opc = "idle" /\ rpc = "idle"
    /\ apc' = "logger"
    /\ UNCHANGED <<astep, aexit, araised, app_sess, logins, reports>>
    /\ UNCHANGED OtherAppl

\* main, lines 36-40: configure_logger.
AppConfigureLogger ==
    /\ apc = "logger"
    /\ \E ok \in BOOLEAN :
          IF ok THEN apc' = "init" /\ astep' = 1 /\ UNCHANGED aexit
          ELSE apc' = "exited" /\ aexit' = Some(1) /\ UNCHANGED astep
    /\ UNCHANGED <<araised, app_sess, logins, reports>>
    /\ UNCHANGED OtherAppl

\* main, line 45: load_app_config.
AppLoadConfig ==
    /\ apc = "init" /\ InitSteps[astep] = "config"
    /\ \E ok \in BOOLEAN :
          IF ok THEN InitStepDone ELSE InitStepFailed("FileNotFoundError")
    /\ UNCHANGED <<app_sess, logins, reports>>
    /\ UNCHANGED OtherAppl

\* main, line 46: get_user_input; get_message raises when the mailbox
\* has no message of the id.
AppGetUserInput ==
    /\ apc = "init" /\ InitSteps[astep] = "input"
    /\ \E how \in UserInputOutcomes :
          IF how = "ok" THEN InitStepDone ELSE InitStepFailed(how)
    /\ UNCHANGED <<app_sess, logins, reports>>
    /\ UNCHANGED OtherAppl

\* main, line 47: load_closing_rules.
AppLoadRules ==
    /\ apc = "init" /\ InitSteps[astep] = "rules"
    /\ \E ok \in BOOLEAN :
          IF ok THEN InitStepDone ELSE InitStepFailed("FileNotFoundError")
    /\ UNCHANGED <<app_sess, logins, reports>>
    /\ UNCHANGED OtherAppl

\* main, line 48: connect_to_sap; an unrecognized system raises before
\* sap.login is called.
AppConnect ==
    /\ apc = "init" /\ InitSteps[astep] = "connect"
    /\ \/ /\ InitStepDone
          /\ app_sess' = TRUE
          /\ logins' = logins + 1
       \/ /\ InitStepFailed("ValueError")
          /\ UNCHANGED <<app_sess, logins>>
    /\ UNCHANGED reports
    /\ UNCHANGED OtherAppl

\* main, lines 59-63: process_agreements is called.
AppProcessAgreements ==
    /\ apc = "process"
    /\ OrchStart

\* main, lines 76-84: process_agreements raised.
AppProcessFailed ==
    /\ apc = "process" /\ opc \in {"aborted", "rejected"}
    /\ ProcessingFailed
    /\ UNCHANGED <<astep, araised, logins, reports>>
    /\ UNCHANGED OtherAppl

\* main, line 67: create_report with what process_agreements returned.
AppCreateReport ==
    /\ apc = "process" /\ opc = "done"
    /\ \/ /\ apc' = "notify"
          /\ reports' = reports + 1
          /\ UNCHANGED <<aexit, app_sess>>
       \/ /\ ProcessingFailed
          /\ UNCHANGED reports
    /\ UNCHANGED <<astep, araised, logins>>
    /\ UNCHANGED OtherAppl

\* main, lines 69-86: the notification, sent or disabled; the finally
\* clause; main returns 0, or 3 when sending raised.
AppNotify ==
    /\ apc = "notify"
    /\ \/ /\ apc' = "exited"
          /\ aexit' = Some(0)
          /\ app_sess' = FALSE
       \/ ProcessingFailed
    /\ UNCHANGED <<astep, araised, logins, reports>>
    /\ UNCHANGED OtherAppl

\* ------------------------------------------------- the modal dialogs

\* A modal dialog of the external system: the title of the window, the
\* captions of its buttons, its text.
Dialogs ==
    [title : {"Information", "Warning"},
     buttons : {{}, {"OK"}, {"No"}, {"Yes", "No"}},
     text : {"Order is blocked. Please check status details",
             "has delivery block", "other"}]

DialogStacks == UNION {[1..n -> Dialogs] : n \in 0..MaxDialogs}

\* _is_popup_dialog(): the active window is a modal dialog.
_is_popup_dialog == wnds # <<>>

\* _press_enter / _confirm and _press_cancel / _decline.
_press_enter == "sendVkey(0)"
_press_cancel == "sendVkey(12)"

\* Mutant of _close_popup_dialog: without the button asked for, the dialog
\* is closed with the key.
_close_popup_dialog_by_key(m, d, confirm) ==
    IF confirm THEN <<_press_enter>> ELSE <<_press_cancel>>

\* _close_popup_dialog(confirm) of module m on the active dialog d: what
\* it sends to the external system (a key, or the press of a button).
_close_popup_dialog(m, d, confirm) ==
    IF d.title = "Information"
    THEN <<IF confirm THEN _press_enter ELSE _press_cancel>>
    ELSE IF (IF confirm THEN "Yes" ELSE "No") \in d.buttons
    THEN <<IF confirm THEN "Yes" ELSE "No">>
    ELSE <<>>

\* The external system closes the active dialog on a key or a button.
AfterCmds(w, cmds) == IF cmds = <<>> THEN w ELSE Tail(w)

NoClose == [mod |-> "", confirm |-> FALSE, pre |-> <<>>, cmds |-> <<>>]

\* What lies outside the parts followed on their own.
OtherGui == <<storage, next_doc, orch, runner, settle, batchlog,
              sessions, roundtrip, appl>>

OtherDialogs == <<OtherGui, reopening, workflow, order>>

\* _close_popup_dialog called on an open dialog.
ClosePopupDialog ==
    /\ dpc = "idle" /\ _is_popup_dialog
    /\ \E m \in SessionNames, confirm \in BOOLEAN :
          LET cmds == _close_popup_dialog(m, wnds[1], confirm)
          IN  /\ wnds' = AfterCmds(wnds, cmds)
              /\ dlast' = [mod |-> m, confirm |-> confirm, pre |-> wnds,
                           cmds |-> cmds]
    /\ UNCHANGED dpc
    /\ UNCHANGED OtherDialogs

DialogLoops == {"_open_order", "_set_rejection_reason", "_get_document_number"}

\* One of the loops is reached with the dialogs as they are.
LoopStart ==
    /\ dpc = "idle"
    /\ dpc' \in DialogLoops
    /\ UNCHANGED <<wnds, dlast>>
    /\ UNCHANGED OtherDialogs

\* va02._open_order, lines 172-180: one turn of the loop.
OpenOrderLoop ==
    /\ dpc = "_open_order"
    /\ IF ~_is_popup_dialog
       THEN dpc' = "done" /\ UNCHANGED wnds
       ELSE IF wnds[1].text \in
                 {"Order is blocked. Please check status details",
                  "has delivery block"}
       THEN /\ wnds' = AfterCmds(wnds,
                          _close_popup_dialog("va02", wnds[1], TRUE))
            /\ UNCHANGED dpc
       ELSE dpc' = "raised" /\ UNCHANGED wnds
    /\ UNCHANGED dlast
    /\ UNCHANGED OtherDialogs

\* so01._set_rejection_reason, lines 88-89: one turn of the loop.
RejectionLoop ==
    /\ dpc = "_set_rejection_reason"
    /\ IF ~_is_popup_dialog
       THEN dpc' = "done" /\ UNCHANGED wnds
       ELSE /\ wnds' = AfterCmds(wnds,
                          _close_popup_dialog("so01", wnds[1], TRUE))
            /\ UNCHANGED dpc
    /\ UNCHANGED dlast
    /\ UNCHANGED OtherDialogs

\* vbo2._get_document_number, lines 214-215: one turn of the loop.
DocNumLoop ==
    /\ dpc = "_get_document_number"
    /\ IF ~_is_popup_dialog
       THEN dpc' = "done" /\ UNCHANGED wnds
       ELSE /\ wnds' = AfterCmds(wnds, <<_press_cancel>>)
            /\ UNCHANGED dpc
    /\ UNCHANGED dlast
    /\ UNCHANGED OtherDialogs

\* ------------------------------ vbo2: after a confirmed settlement

BeingProcessed == "Agreement is currently being processed"

\* What the status bar shows after Enter: the agreement is opened, or the
\* settlement is still being processed.
AfterEnter == IF processing THEN BeingProcessed ELSE ""

\* Mutant of PollAgain: the agreement is reopened with one Enter.
PollNever(text) == FALSE

\* _reopen_agreement, line 184: "being processed" in _stat_bar.text
PollAgain(text) == text = BeingProcessed

OtherReopening == <<OtherGui, dpc, dlast, workflow, order>>

\* settle_agreement, lines 565-566: the dialog is confirmed, the
\* agreement saved.
ConfirmAndSave ==
    /\ wpc = "confirmed"
    /\ wpc' = "reopen"
    /\ UNCHANGED <<processing, stat_bar, enters, wnds>>
    /\ UNCHANGED OtherReopening

\* _reopen_agreement, line 182: the first Enter.
ReopenEnter ==
    /\ wpc = "reopen"
    /\ stat_bar' = AfterEnter
    /\ enters' = 1
    /\ wpc' = "poll"
    /\ UNCHANGED <<processing, wnds>>
    /\ UNCHANGED OtherReopening

\* _reopen_agreement, lines 184-186: the test of the loop and, when it
\* holds, Enter and the delay.
ReopenPoll ==
    /\ wpc = "poll"
    /\ IF PollAgain(stat_bar)
       THEN /\ stat_bar' = AfterEnter
            /\ enters' = IF enters < MaxPolls THEN enters + 1 ELSE enters
            /\ UNCHANGED wpc
       ELSE /\ wpc' = "number"
            /\ UNCHANGED <<stat_bar, enters>>
    /\ UNCHANGED <<processing, wnds>>
    /\ UNCHANGED OtherReopening

\* The external system is through with the settlement.
Processed ==
    /\ processing
    /\ processing' = FALSE
    /\ UNCHANGED <<wpc, stat_bar, enters, wnds>>
    /\ UNCHANGED OtherReopening

\* _get_document_number, lines 214-215, with the windows of the document
\* tree open: F12 until none is.
ReadNumber ==
    /\ wpc = "number"
    /\ IF _is_popup_dialog
       THEN wnds' = AfterCmds(wnds, <<_press_cancel>>) /\ UNCHANGED wpc
       ELSE wpc' = "leave" /\ UNCHANGED wnds
    /\ UNCHANGED <<processing, stat_bar, enters>>
    /\ UNCHANGED OtherReopening

\* settle_agreement, lines 569-579: F12 twice, the start window, return.
LeaveAndReturn ==
    /\ wpc = "leave"
    /\ wpc' = "returned"
    /\ UNCHANGED <<processing, stat_bar, enters, wnds>>
    /\ UNCHANGED OtherReopening

\* ------------------------------------------- so01: process_workflow

\* Titles of workflow items and keywords, as texts over two characters.
Titles == {<<>>, <<"1">>, <<"2">>, <<"1", "2">>, <<"2", "1">>}
Keywords == {<<>>, <<"1">>, <<"2">>, <<"1", "2">>}

\* A row of the table: the title the cell shows before the row is
\* selected (blank, or the title) and the title it shows afterwards.
ItemRows ==
    {r \in [shown : Titles, title : Titles] :
        r.shown = <<>> \/ r.shown = r.title}

ItemTables == UNION {[1..n -> ItemRows] : n \in 0..MaxRows}

\* The dialogs that follow the rejection reason.
ReasonDialogs ==
    {<<>>,
     <<[title |-> "Information", buttons |-> {"OK"}, text |-> "other"]>>,
     <<[title |-> "Warning", buttons |-> {"Yes", "No"}, text |-> "other"]>>,
     <<[title |-> "Warning", buttons |-> {"OK"}, text |-> "other"]>>}

\* kwd in title
Contains(kwd, title) ==
    \E k \in 0..(Len(title) - Len(kwd)) :
        SubSeq(title, k + 1, k + Len(kwd)) = kwd

\* items.GetCellValue(row_idx, "OBJDES"), read again after the row was
\* selected when it was blank.
TitleRead(row) == IF row.shown = <<>> THEN row.title ELSE row.shown

\* _set_rejection_reason: the loop over the dialogs comes to an end when
\* each of them is closed by _close_popup_dialog(confirm = True).
RECURSIVE ReasonLoopEnds(_)
ReasonLoopEnds(w) ==
    IF w = <<>> THEN TRUE
    ELSE IF _close_popup_dialog("so01", w[1], TRUE) = <<>> THEN FALSE
    ELSE ReasonLoopEnds(Tail(w))

\* process_workflow(items, kwd) from row row_idx on: how it ends ("True",
\* "False", or "loops" in _set_rejection_reason), the rows it selected,
\* opened and approved, in order.
RECURSIVE process_workflow_from(_, _, _, _)
process_workflow_from(items, kwd, w, row_idx) ==
    IF row_idx > Len(items)
    THEN [out |-> "False", selected |-> <<>>, opened |-> <<>>,
          approved |-> <<>>]
    ELSE LET row == items[row_idx]
             sel == IF row.shown = <<>> THEN <<row_idx>> ELSE <<>>
         IN  IF ~Contains(kwd, TitleRead(row))
             THEN LET rest == process_workflow_from(items, kwd, w, row_idx + 1)
                  IN  [rest EXCEPT !.selected = sel \o @]
             ELSE [out |-> IF ReasonLoopEnds(w) THEN "True" ELSE "loops",
                   selected |-> sel \o <<row_idx>>,
                   opened |-> <<row_idx>>,
                   approved |-> <<row_idx>>]

OtherWorkflow == <<OtherGui, dialogs, reopening, order>>

\* process_workflow(items, kwd) is called.
WorkflowCall ==
    /\ wf_out = None
    /\ wf_out' = Some(process_workflow_from(wf_in.items, wf_in.kwd,
                                            wf_in.dialogs, 1))
    /\ UNCHANGED wf_in
    /\ UNCHANGED OtherWorkflow

\* ----------------------------------------- va02: change_sales_order

\* Order numbers: nine digits, eight, ten, and eight with a sign.
OrderNumbers == {123456789, 12345678, 1234567890, -12345678}

\* Approver ids: two of eight digits, one of three.
ApproverIds == {10000001, 10000002, 999}
ApproverLists == UNION {[1..n -> ApproverIds] : n \in 0..MaxApprovers}

\* The partner already entered in an order.
ExistingPartner == 70000001

\* The Partner column of the partner table: a text per row, blank when
\* the row is free.
PartnerTables ==
    UNION {[1..n -> {<<>>, Digits(ExistingPartner)}] : n \in 1..MaxPartnerRows}

\* How _open_order ends: the order is open, it raises, or it stays in its
\* loop over the dialogs.
OpenOutcomes ==
    {"opened", "AuthorizationMissingError", "RuntimeError", "loops"}

\* str(x).isnumeric() and len(str(x)) == n
NumericOfLength(x, n) ==
    /\ Len(Digits(x)) = n
    /\ \A k \in 1..Len(Digits(x)) :
          \E d \in 1..Len(DigitChars) : Digits(x)[k] = DigitChars[d]

\* Mutant of ValidOrderNumber: any number of nine characters passes.
ValidOrderNumberByLength(num) == Len(Digits(num)) = 9

\* change_sales_order, line 343
ValidOrderNumber(num) == NumericOfLength(num, 9)

\* change_sales_order, lines 375-379
ValidApprover(app) == NumericOfLength(app, 8)

\* _add_entry: the row written to is the first whose Partner cell is
\* blank, the last row when none is.
EntryRow(table) ==
    IF \E k \in 1..Len(table) : table[k] = <<>>
    THEN CHOOSE k \in 1..Len(table) :
            table[k] = <<>> /\ \A j \in 1..(k - 1) : table[j] # <<>>
    ELSE Len(table)

_add_entry(table, val) == [table EXCEPT ![EntryRow(table)] = Digits(val)]

\* _add_approvers: _add_entry for each id, in the order of the list.
RECURSIVE _add_approvers(_, _)
_add_approvers(table, user_ids) ==
    IF user_ids = <<>> THEN table
    ELSE _add_approvers(_add_entry(table, user_ids[1]), Tail(user_ids))

\* A call's outcome: "returned", the exception raised or "loops"; the
\* steps taken on the external system, in order; the partner table as it
\* is; the partner table as last saved, None when nothing was saved.
Outcome(out, cmds, table, saved) ==
    [out |-> out, cmds |-> cmds, table |-> table, saved |-> saved]

\* Mutant of _attach_file: the error is raised without a save.
_attach_file_unsaved(c, cmds, table) ==
    IF c.att_path = Some("missing")
    THEN Outcome("FileNotFoundError", cmds, table, None)
    ELSE IF ~c.attachments
    THEN Outcome("RuntimeError", cmds \o <<"attachments">>, table, None)
    ELSE Outcome("returned", cmds \o <<"attachments", "attach", "save">>,
                 table, Some(table))

\* _attach_file(att_path) and the save that ends change_sales_order.
_attach_file(c, cmds, table) ==
    IF c.att_path = Some("missing")
    THEN Outcome("FileNotFoundError", cmds \o <<"save">>, table, Some(table))
    ELSE IF ~c.attachments
    THEN Outcome("RuntimeError", cmds \o <<"attachments", "save">>, table,
                 Some(table))
    ELSE Outcome("returned", cmds \o <<"attachments", "attach", "save">>,
                 table, Some(table))

\* change_sales_order(num, print_invoice, approvers, att_path) with the
\* module started or not, on the order the external system holds.
change_sales_order(c) ==
    LET nothing == Outcome("", <<>>, c.table, None)
        toggled == IF c.print_invoice = None THEN <<"open">>
                   ELSE <<"open", "toggle">>
        adding == c.approvers # None /\ Len(c.approvers[1]) > 1
        added == IF adding THEN _add_approvers(c.table, c.approvers[1])
                 ELSE c.table
        withadd == IF adding THEN toggled \o <<"add">> ELSE toggled
    IN  IF ~c.started
        THEN [nothing EXCEPT !.out = "TransactionClosedError"]
        ELSE IF ~ValidOrderNumber(c.num)
        THEN [nothing EXCEPT !.out = "ValueError"]
        ELSE IF c.print_invoice = None /\ c.approvers = None
                  /\ c.att_path = None
        THEN [nothing EXCEPT !.out = "returned"]
        ELSE IF c.open # "opened"
        THEN Outcome(c.open, <<"open">>, c.table, None)
        ELSE IF adding /\ \E k \in 1..Len(c.approvers[1]) :
                              ~ValidApprover(c.approvers[1][k])
        THEN Outcome("ValueError", toggled, c.table, None)
        ELSE IF c.att_path # None
        THEN _attach_file(c, withadd, added)
        ELSE Outcome("returned", withadd \o <<"save">>, added, Some(added))

OrderInputs ==
    [started : BOOLEAN,
     num : OrderNumbers,
     print_invoice : {None, Some(FALSE)},
     approvers : {None} \cup {Some(l) : l \in ApproverLists},
     att_path : {None, Some("found"), Some("missing")},
     attachments : BOOLEAN,
     open : OpenOutcomes,
     table : PartnerTables]

OtherOrder == <<OtherGui, dialogs, reopening, workflow>>

\* change_sales_order is called.
OrderCall ==
    /\ cso_out = None
    /\ cso_out' = Some(change_sales_order(cso_in))
    /\ UNCHANGED cso_in
    /\ UNCHANGED OtherOrder

\* ------------------------------------------------------- specifications
\* Nothing runs, nothing was called.
InitIdle ==
    /\ next_doc = 1
    /\ dump = None
    /\ opc = "idle" /\ orun = 0
    /\ n_items = 0 /\ thresh = 0 /\ cocd = "" /\ oi = 0
    /\ output = <<>> /\ result = InitResult /\ batch_idx = 0
    /\ content = new_batch("", "")
    /\ vbo2_sess = FALSE /\ va02_sess = FALSE
    /\ rpc = "idle" /\ rrun = 0 /\ rexit = None
    /\ batches = NoBatches /\ todo = {} /\ rb = 0 /\ calls = <<>>
    /\ so01_sess = FALSE
    /\ plog = {}
    /\ made = <<>> /\ cut = 0

\* Nothing to write and read back.
InitNoWriter ==
    /\ want = new_batch("", "") /\ wrote = 0 /\ got_id = 0
    /\ reloaded = None

\* app.py is not running.
InitAppl ==
    /\ apc = "idle" /\ astep = 0 /\ aexit = None /\ araised = None
    /\ app_sess = FALSE /\ logins = 0 /\ reports = 0

InitProgram ==
    /\ files = [b \in FileIds |-> NoFile]
    /\ InitIdle
    /\ InitNoWriter
    /\ InitAppl
    /\ mods = [m \in SessionNames |-> Unbound]
    /\ last = NoCall

\* No dialog is open, no loop runs.
InitNoDialogs == wnds = <<>> /\ dpc = "idle" /\ dlast = NoClose

\* No settlement was confirmed.
InitNoReopening ==
    wpc = "idle" /\ processing = FALSE /\ stat_bar = "" /\ enters = 0

\* process_workflow is not called.
InitNoWorkflow ==
    /\ wf_in = [items |-> <<>>, kwd |-> <<>>, dialogs |-> <<>>]
    /\ wf_out = None

\* change_sales_order is not called.
InitNoOrder ==
    /\ cso_in = [started |-> FALSE, num |-> 123456789,
                 print_invoice |-> None, approvers |-> None,
                 att_path |-> None, attachments |-> TRUE, open |-> "opened",
                 table |-> <<<<>>>>]
    /\ cso_out = None

InitGui ==
    InitNoDialogs /\ InitNoReopening /\ InitNoWorkflow /\ InitNoOrder

\* The program before anything is called, but for the parts of the
\* modules that are followed on their own.
InitCalm ==
    /\ InitProgram
    /\ sa_in = [a |-> Typical, thresh |-> 0, accept_inactive_accs |-> FALSE,
                accept_outdated_vols |-> FALSE]
    /\ sa_out = None

Init == InitCalm /\ InitGui

\* The two processes never overlap: one interactive run at a time, and
\* the finalization run is scheduled apart from it.
Next ==
    \/ OrchStart
    \/ CreateBatchOpen
    \/ CreateBatchWrite
    \/ SettleItem
    \/ ChangeSalesOrder
    \/ UpdateBatchRead
    \/ UpdateBatchTrunc
    \/ UpdateBatchWrite
    \/ OrchReturn
    \/ OrchCrash
    \/ OrchExit
    \/ RunnerStart
    \/ FinalizeStart
    \/ ProcessWorkflow
    \/ FinalizeClose
    \/ RemoveDataBatch
    \/ RunnerReturn
    \/ RunnerExit

Spec == Init /\ [][Next]_vars

InitSettle ==
    /\ InitProgram
    /\ sa_in \in SettleInputs
    /\ sa_out = None
    /\ InitGui

NextSettle == SettleCall

SpecSettle == InitSettle /\ [][NextSettle]_vars

\* Any data directory, then creations and removals in any order.
InitBatch ==
    /\ files \in {Directory(S) : S \in SUBSET FileIds}
    /\ InitIdle
    /\ InitNoWriter
    /\ InitAppl
    /\ mods = [m \in SessionNames |-> Unbound]
    /\ last = NoCall
    /\ sa_in = [a |-> Typical, thresh |-> 0, accept_inactive_accs |-> FALSE,
                accept_outdated_vols |-> FALSE]
    /\ sa_out = None
    /\ InitGui

NextBatch ==
    \/ CreateBatchFile
    \/ RemoveBatchFile

SpecBatch == InitBatch /\ [][NextBatch]_vars

InitRules ==
    /\ InitProgram
    /\ sa_in \in RuleInputs
    /\ sa_out = None
    /\ InitGui

NextRules == RuleSettleCall

SpecRules == InitRules /\ [][NextRules]_vars

\* The three modules, called in any order by any caller.
NextSession ==
    \/ SessStart
    \/ SessClose
    \/ SessOperation
    \/ SessProcessWorkflow

SpecSession == Init /\ [][NextSession]_vars

\* Any data directory with room for a file, any list to write.
InitRoundTrip ==
    /\ files \in {Directory(S) : S \in SUBSET FileIds \ {FileIds}}
    /\ InitIdle
    /\ mods = [m \in SessionNames |-> Unbound]
    /\ last = NoCall
    /\ sa_in = [a |-> Typical, thresh |-> 0, accept_inactive_accs |-> FALSE,
                accept_outdated_vols |-> FALSE]
    /\ sa_out = None
    /\ \E key \in RunKeys, L \in MemoLists :
          want = [country |-> key[1], company_code |-> key[2],
                  credit_memos |-> L]
    /\ wrote = 0 /\ got_id = 0 /\ reloaded = None
    /\ InitAppl
    /\ InitGui

NextRoundTrip ==
    \/ WriterCreate
    \/ WriterAppend
    \/ ReaderLoad

SpecRoundTrip == InitRoundTrip /\ [][NextRoundTrip]_vars

\* One run of app.py: main, and process_agreements inside it.
NextApp ==
    \/ AppStart
    \/ AppConfigureLogger
    \/ AppLoadConfig
    \/ AppGetUserInput
    \/ AppLoadRules
    \/ AppConnect
    \/ AppProcessAgreements
    \/ CreateBatchOpen
    \/ CreateBatchWrite
    \/ SettleItem
    \/ ChangeSalesOrder
    \/ UpdateBatchRead
    \/ UpdateBatchTrunc
    \/ UpdateBatchWrite
    \/ OrchReturn
    \/ OrchCrash
    \/ AppProcessFailed
    \/ AppCreateReport
    \/ AppNotify

SpecApp == Init /\ [][NextApp]_vars

\* The interactive run and the finalization run at any time, on the same
\* data directory; no process is terminated from outside.
NextOverlap ==
    \/ ProcessAgreements
    \/ CreateBatchOpen
    \/ CreateBatchWrite
    \/ SettleItem
    \/ ChangeSalesOrder
    \/ UpdateBatchRead
    \/ UpdateBatchTrunc
    \/ UpdateBatchWrite
    \/ OrchReturn
    \/ OrchExit
    \/ LoadBatches
    \/ FinalizeStart
    \/ ProcessWorkflow
    \/ FinalizeClose
    \/ RemoveDataBatch
    \/ RunnerReturn
    \/ RunnerExit

SpecOverlap == Init /\ [][NextOverlap]_vars

\* Any dialogs open; a call of _close_popup_dialog, or one of the loops.
InitDialog ==
    /\ InitCalm
    /\ wnds \in DialogStacks
    /\ dpc = "idle" /\ dlast = NoClose
    /\ InitNoReopening
    /\ InitNoWorkflow
    /\ InitNoOrder

NextDialog ==
    \/ ClosePopupDialog
    \/ LoopStart
    \/ OpenOrderLoop
    \/ RejectionLoop
    \/ DocNumLoop

SpecDialog == InitDialog /\ [][NextDialog]_vars

\* A loop that runs takes its next turn.
SpecDialogLive ==
    SpecDialog /\ WF_vars(OpenOrderLoop \/ RejectionLoop \/ DocNumLoop)

\* The external system has confirmed a settlement, which it processes;
\* the windows of the document tree are any.
InitReopen ==
    /\ InitCalm
    /\ wnds \in DialogStacks
    /\ dpc = "idle" /\ dlast = NoClose
    /\ wpc = "confirmed" /\ processing \in BOOLEAN /\ stat_bar = ""
    /\ enters = 0
    /\ InitNoWorkflow
    /\ InitNoOrder

NextReopen ==
    \/ ConfirmAndSave
    \/ ReopenEnter
    \/ ReopenPoll
    \/ Processed
    \/ ReadNumber
    \/ LeaveAndReturn

SpecReopen == InitReopen /\ [][NextReopen]_vars

\* Any table, any keyword.
InitWorkflow ==
    /\ InitCalm
    /\ InitNoDialogs /\ InitNoReopening
    /\ wf_in \in [items : ItemTables, kwd : Keywords, dialogs : ReasonDialogs]
    /\ wf_out = None
    /\ InitNoOrder

NextWorkflow == WorkflowCall

SpecWorkflow == InitWorkflow /\ [][NextWorkflow]_vars

\* Any arguments, any order.
InitOrder ==
    /\ InitCalm
    /\ InitNoDialogs /\ InitNoReopening /\ InitNoWorkflow
    /\ cso_in \in OrderInputs
    /\ cso_out = None

NextOrder == OrderCall

SpecOrder == InitOrder /\ [][NextOrder]_vars

\* settle_agreement goes on; the external system may or may not.
SpecReopenLive ==
    SpecReopen
      /\ WF_vars(ConfirmAndSave \/ ReopenEnter \/ ReopenPoll \/ ReadNumber
                   \/ LeaveAndReturn)

\* --------------------------------------------------------------- claims
\* The numbers a batch file holds, read from its text (none for a file
\* that is absent or empty).
StoredMemos(b) ==
    [k \in 1..Len(files[b].credit_memos) |-> Number(files[b].credit_memos[k])]

\* The rows of the run that carry a credit memo request and its number.
IsQueued(row) ==
    row.document_type = Some("memo_request") /\ row.Credit_Memo # None
QueuedRows == SelectSeq(output, IsQueued)
QueuedNumbers == [k \in 1..Len(QueuedRows) |-> QueuedRows[k].Credit_Memo[1]]
Elements(seq) == {seq[k] : k \in 1..Len(seq)}
RunEnded == opc \in {"done", "aborted"}

SaReturned == sa_out # None /\ ~sa_out[1].raised
SaResult == sa_out[1].result
SaOpenValueNotZero == SaResult.open_value \notin {None, Some(0)}

\* C2 as stated: with an open value that is not zero, the result has no
\* document number.
C2_NoDocumentNumber ==
    (SaReturned /\ SaOpenValueNotZero) => SaResult.document_number = None

\* C2 as amended: with an open value that is not zero, Settle is never
\* pressed and no credit memo request is returned; a document number in
\* the result is that of an existing credit memo, reported on the
\* display-only path or for an agreement of status C or D.
C2_NoSettlementWhenOpenValue ==
    (SaReturned /\ SaOpenValueNotZero) =>
        /\ "press_settle" \notin Elements(sa_out[1].cmds)
        /\ SaResult.document_type # Some("memo_request")
        /\ SaResult.document_number # None =>
              /\ SaResult.document_type = Some("credit_memo")
              /\ SaResult.document_number = sa_in.a.memo
              /\ sa_in.a.sbar = "display" \/ sa_in.a.status \in {"C", "D"}

\* An agreement of status C with an open value: the result carries the
\* number of its existing credit memo.
C2_Witness ==
    /\ SaReturned /\ SaOpenValueNotZero
    /\ sa_in.a.sbar = "" /\ sa_in.a.status = "C"
    /\ SaResult.document_number = Some(ExistingMemo)

HasAmendError(row) == ErrChangingOrder \in Elements(row.Message)
Appending == {"append_read", "append_trunc", "append_write"}

C4_PriorAppendsSurviveCrash ==
    opc = "crashed" =>
        \A i \in 1..Len(output) :
            (i < oi /\ IsQueued(output[i])) =>
                /\ isfile(batch_idx)
                /\ output[i].Credit_Memo[1] \in Elements(StoredMemos(batch_idx))

\* C5: a batch file that exists holds a complete record.
C5_FilesAlwaysComplete ==
    \A b \in FileIds : isfile(b) => json_valid(files[b])

\* C6: no number is given to process_workflow in two finalization runs.
C6_ConsumedInOneRun ==
    \A p, q \in plog : p[2] = q[2] => p[1] = q[1]

\* The numbers of the batch being finalized, as loaded.
Nums == batches[rb].credit_memos
InFinalize == rpc \in {"items", "remove"}

\* The calls made so far are, in order, the first numbers of the batch.
CallsFollowNums ==
    /\ Len(calls) <= Len(Nums)
    /\ \A k \in 1..Len(calls) : calls[k].num = Nums[k]
AllAttempted == CallsFollowNums /\ Len(calls) = Len(Nums)

C7_State ==
    /\ InFinalize => CallsFollowNums
    /\ rpc = "items" => so01_sess
    /\ rpc = "remove" => (AllAttempted /\ ~so01_sess)

\* A batch file goes only when its batch has been worked through.
C7_Removal ==
    \A b \in FileIds :
        (isfile(b) /\ files'[b].st = "absent") =>
            (rpc = "remove" /\ rb = b /\ AllAttempted /\ ~so01_sess)

\* C7: for each batch the finalization run starts SO01, calls
\* process_workflow once for each number in stored order, found or not,
\* closes SO01, and removes the batch file only after the last number.
C7_EveryNumberAttemptedBeforeRemoval == []C7_State /\ [][C7_Removal]_vars

\* A batch of two numbers, the first not found, has been removed.
C7_Witness ==
    /\ rpc = "next" /\ rb # 0 /\ ~isfile(rb)
    /\ Len(calls) = 2
    /\ calls[1].out = "not_found" /\ calls[2].out = "found"

\* C8: when a process_workflow call raises, main returns 3, the batch file
\* being processed stays as it was, and no batch after it is processed or
\* removed in that run.
C8_ExceptionEndsRunnerRun ==
    WorkflowRaised =>
        /\ rpc = "exit" /\ rexit = Some(3)
        /\ files[rb] = json_dump(batches[rb])
        /\ \A b \in todo :
              /\ files[b] = json_dump(batches[b])
              /\ \A n \in Elements(batches[b].credit_memos) : <<rrun, n>> \notin plog

\* The second number of a batch raised while another batch was waiting.
C8_Witness ==
    /\ WorkflowRaised
    /\ todo # {}
    /\ rexit = Some(3)

\* An exception left the per-item block: the state the run is left in.
C9_State ==
    (dump # None /\ opc # "idle") =>
        /\ opc = "aborted"
        /\ dump = Some(output)
        /\ \A j \in (oi + 1)..n_items : output[j] = BlankRow
        /\ ~va02_sess
        /\ json_valid(files[batch_idx]) =>
              Elements(StoredMemos(batch_idx))
                 \subseteq {output[j].Credit_Memo[1] : j \in {k \in 1..(oi - 1) : IsQueued(output[k])}}
C9_NoFurtherStep ==
    opc = "aborted" => (opc' = "idle" /\ files' = files /\ next_doc' = next_doc)
\* C9: when an exception leaves the per-item block, the rows gathered so
\* far are dumped, process_agreements raises, and no later item is
\* settled, amended or appended: the rows after the failing one are
\* blank and the run takes no further step on the files or the external
\* system.
C9_ExceptionAbortsRun == []C9_State /\ [][C9_NoFurtherStep]_vars

\* The first of two items raised: its row and the next are blank.
C9_Witness ==
    /\ opc = "aborted"
    /\ n_items = 2 /\ oi = 1
    /\ dump = Some(<<BlankRow, BlankRow>>)

\* The requests the external system has created so far.
RequestNumbers == 1..(next_doc - 1)

\* C10: VA02 is started and the batch file is written only for a result
\* that is a credit memo request with a number; a credit memo, or a
\* result without number, goes to the next item; batch files hold numbers
\* of credit memo requests only.
C10_OnlyRequestsFollowedUp ==
    /\ \A i \in 1..Len(output) : output[i].va02 => IsQueued(output[i])
    /\ opc \in ({"amend"} \cup Appending) =>
          /\ result.document_type = Some("memo_request")
          /\ result.document_number # None
          /\ output[oi].va02
    /\ va02_sess => opc \in {"amend", "crashed"}
    /\ \A b \in FileIds : Elements(StoredMemos(b)) \subseteq RequestNumbers
    /\ (opc \in (OrchRunning \cup OrchEnded) /\ batch_idx # 0) =>
          Elements(StoredMemos(batch_idx))
             \subseteq {output[j].Credit_Memo[1] : j \in {k \in 1..Len(output) : IsQueued(output[k])}}

\* A run returned after a credit memo with a number and a result without
\* number: VA02 was not started for them and the batch is empty.
C10_Witness ==
    /\ opc = "done" /\ n_items = 2
    /\ output[1].document_type = Some("credit_memo")
    /\ output[1].Credit_Memo = Some(ExistingMemo)
    /\ output[2].Credit_Memo = None
    /\ ~output[1].va02 /\ ~output[2].va02
    /\ files[batch_idx] = json_dump(new_batch(Country(cocd), cocd))

\* C11: every result of settle_agreement of kind memo_request has the
\* message type "I" (Info).
C11_RequestImpliesInfo ==
    (SaReturned /\ SaResult.document_type = Some("memo_request")) =>
        SaResult.message_type = Some("I")

\* A settlement was confirmed and the request was not found in the
\* document tree: kind memo_request, no number.
C11_Witness ==
    /\ SaReturned
    /\ SaResult.document_type = Some("memo_request")
    /\ SaResult.document_number = None
    /\ "press_settle" \in Elements(sa_out[1].cmds)

\* The id the step gave to a new batch file is the smallest positive
\* integer that had no file before the step.
C12_Step ==
    Len(made') > Len(made) =>
        LET id == made'[Len(made')]
        IN  /\ id >= 1
            /\ ~isfile(id)
            /\ \A k \in 1..(id - 1) : isfile(k)
            /\ files'[id] = FreshFile
            /\ \A b \in FileIds \ {id} : files'[b] = files[b]

C13_IdsIncrease ==
    \A j, k \in 1..Len(made) : j < k => made[j] < made[k]

\* C13 as amended: of two batch files created with no removal of a file
\* in between or since, the later has the greater id.
C13_IdsIncreaseBetweenRemovals ==
    \A j, k \in (cut + 1)..Len(made) : j < k => made[j] < made[k]

\* File 1 was created and removed, and two files were created since:
\* the first of them got id 1 again.
C13_Witness ==
    /\ cut = 1 /\ Len(made) = 3
    /\ made[1] = 1 /\ made[2] = 1 /\ made[3] > 1

\* The run is past the creation of its batch file.
PastCreation == opc \in (OrchRunning \cup {"done", "aborted"}) \ {"create", "create_write"}
EmptyRecord == json_dump(new_batch(Country(cocd), cocd))

C14_State ==
    /\ opc \in {"create", "create_write"} =>
          /\ n_items > 0 /\ oi = 0
          /\ \A i \in 1..n_items : output[i] = BlankRow
    /\ (opc = "loop" /\ oi = 1) =>
          /\ files[batch_idx] = EmptyRecord
          /\ output[1] = BlankRow
    /\ PastCreation => (n_items > 0 /\ isfile(batch_idx))
    /\ opc = "rejected" => (n_items = 0 /\ batch_idx = 0)

\* A file comes to exist only in the creation step, which a run takes
\* once, at its start, and the run keeps that file.
C14_Step ==
    /\ \A b \in FileIds :
          (~isfile(b) /\ files'[b].st # "absent") =>
              /\ opc = "create" /\ opc' = "create_write"
              /\ batch_idx' = b
              /\ next_doc' = next_doc
    /\ (opc' = "create" /\ opc # "create") => opc = "idle"
    /\ (opc = "idle" /\ opc' # "idle" /\ n_items' > 0) => opc' = "create"
    /\ opc = "create" => opc' \in {"create_write", "crashed"}
    /\ opc = "create_write" =>
          \/ opc' = "crashed"
          \/ opc' = "loop" /\ oi' = 1 /\ files'[batch_idx] = EmptyRecord
    /\ batch_idx' # batch_idx => (opc = "create" \/ opc' = "idle")

\* C14: a run of process_agreements over one or more items creates one
\* batch file, holding no number, before it settles the first item, and
\* no other batch file, however many items there are and however many
\* of them yield a credit memo request.
C14_OneEmptyBatchPerRun == []C14_State /\ [][C14_Step]_vars

\* A run over two items returned with no request: its one batch file
\* holds no number, and no other file exists.
C14_Witness ==
    /\ opc = "done" /\ n_items = 2 /\ orun = 1
    /\ QueuedNumbers = <<>>
    /\ files[batch_idx] = EmptyRecord
    /\ \A b \in FileIds \ {batch_idx} : ~isfile(b)

\* The globals of the module of the last call, as they are now.
LastMod == mods[last.mod]
AllDomainOps == UNION {DomainOps(m) : m \in SessionNames}

\* C15: close() of a module whose transaction is not started issues no
\* command, does not raise and leaves the module as it was, not started;
\* a close() that returned leaves the module so, which makes the second
\* of two close() calls in a row such a call.
C15_CloseWhenClosedIsNoOp ==
    /\ (last.op = "close" /\ last.pre.sess = None) =>
          /\ last.exc = "" /\ last.cmds = <<>>
          /\ LastMod = last.pre
          /\ LastMod.sess = None
    /\ (last.op = "close" /\ last.exc = "") => LastMod.sess = None

\* va02 was started and closed, and close() was called again.
C15_Witness ==
    /\ last.op = "close" /\ last.mod = "va02"
    /\ last.pre.sess = None /\ last.pre.user_area # None
    /\ last.exc = "" /\ last.cmds = <<>>

\* C16: start(sess) of a module whose transaction is started issues no
\* command and leaves every global of the module as it was.
C16_StartWhenOpenIsNoOp ==
    (last.op = "start" /\ last.pre.sess # None) =>
        /\ last.cmds = <<>> /\ last.exc = ""
        /\ LastMod = last.pre

\* A module started with one GuiSession was started with another.
C16_Witness ==
    /\ last.op = "start"
    /\ last.pre.sess = Some("s1") /\ last.arg = Some("s2")
    /\ LastMod.main_wnd = Some(<<"s1", "wnd[0]">>)

\* C17: after close(), however it ended, no global of the module is
\* bound.
C17_CloseClearsHandles ==
    last.op = "close" => LastMod = Unbound

\* C18: an operation of a module whose transaction is not started
\* raises TransactionClosedError and issues no command.
C18_ClosedOperationFails ==
    (last.op \in AllDomainOps /\ last.pre.sess = None) =>
        /\ last.exc = "TransactionClosedError"
        /\ last.cmds = <<>>

\* C19 as stated: start(None) raises UnboundLocalError and binds
\* nothing.
C19_NullHandleFails ==
    (last.op = "start" /\ last.arg = None) =>
        /\ last.exc = "UnboundLocalError"
        /\ LastMod = last.pre

\* C19 as amended: start(None) binds nothing and issues no command; it
\* raises UnboundLocalError when the transaction is not started, and
\* returns when it is started.
C19_NullHandleFailsWhenClosed ==
    (last.op = "start" /\ last.arg = None) =>
        /\ LastMod = last.pre
        /\ last.cmds = <<>>
        /\ last.pre.sess = None => last.exc = "UnboundLocalError"
        /\ last.pre.sess # None => last.exc = ""

\* so01, not started, was started with None.
C19_Witness ==
    /\ last.op = "start" /\ last.arg = None /\ last.mod = "so01"
    /\ last.pre = Unbound
    /\ last.exc = "UnboundLocalError"
    /\ mods["so01"] = Unbound

\* The call got as far as the threshold gate: the agreement was found
\* and opened, its status is neither C nor D, its open value is 0.
AtThresholdGate ==
    /\ SaReturned
    /\ sa_in.a.sbar = "" /\ sa_in.a.status = "A" /\ sa_in.a.open_val = 0

\* The threshold of the claim, in cents, for the configured one.
ClaimedThreshold(t) == IF t <= 0 THEN 1 ELSE t

\* C20: with rules["threshold"] = t, settle_agreement compares the
\* absolute open accruals against 0.01 when t <= 0 and against t when
\* t >= 0.01: accruals that reach it make it look at the condition
\* scales, and stop the settlement when these are not all checked.
C20_ThresholdFloor ==
    AtThresholdGate =>
        LET reached == Abs(sa_in.a.open_accr) >= ClaimedThreshold(sa_in.rule)
            cmds == Elements(sa_out[1].cmds)
        IN  /\ "conditions" \in cmds <=> reached
            /\ SaResult.message = Some(<<"threshold">>) <=> (reached /\ ~sa_in.a.scales)
            /\ "press_settle" \in cmds <=> ~(reached /\ ~sa_in.a.scales)

\* A negative threshold is configured: accruals of 0.01 with unchecked
\* scales stop the settlement.
C20_Witness ==
    /\ AtThresholdGate
    /\ sa_in.rule = -100
    /\ sa_in.a.open_accr = 1 /\ ~sa_in.a.scales
    /\ SaResult.message = Some(<<"threshold">>)
    /\ SaResult.message_type = Some("E")

\* The settle_agreement call under exploration, however it ended.
SaDone == sa_out # None
SaCmds == Elements(sa_out[1].cmds)
SaPressed == "press_settle" \in SaCmds
\* The dialog of the locate step was one the caller does not accept.
SaDeclined ==
    \/ sa_in.a.popup = "deletion" /\ ~sa_in.accept_inactive_accs
    \/ sa_in.a.popup = "stale" /\ ~sa_in.accept_outdated_vols
\* The locate step classified the agreement Info.
SaLocatedInfo == ~SaDeclined /\ sa_in.a.sbar = ""
SaStatusOpen == sa_in.a.status \notin {"C", "D"}
SaUnderThresholdOrChecked ==
    \/ Abs(sa_in.a.open_accr) < Max(1, sa_in.thresh)
    \/ sa_in.a.scales

\* C26: settle_agreement presses Settle exactly when the agreement was
\* located as Info, its status is neither C nor D, its open value is 0
\* and its accruals are under the threshold or all scales are checked;
\* the status gate decides before the value gate and the value gate
\* before the threshold gate; a settlement the external system confirms
\* yields a credit memo request of severity Info.
C26_SettleIffGatesPass ==
    SaDone =>
        /\ SaPressed <=> /\ SaLocatedInfo /\ SaStatusOpen
                         /\ sa_in.a.open_val = 0
                         /\ SaUnderThresholdOrChecked
        /\ (SaLocatedInfo /\ ~SaStatusOpen) =>
              /\ SaReturned
              /\ SaResult.message[1][1] = "status does not permit"
              /\ "conditions" \notin SaCmds
        /\ (SaLocatedInfo /\ SaStatusOpen /\ sa_in.a.open_val # 0) =>
              /\ SaReturned
              /\ SaResult.message = Some(<<"Open value is not 0 EUR.">>)
              /\ "conditions" \notin SaCmds
        /\ (SaPressed /\ sa_in.a.press = "created") =>
              /\ SaReturned
              /\ SaResult.document_type = Some("memo_request")
              /\ SaResult.message_type = Some("I")

\* Accruals over the threshold with all scales checked: Settle was
\* pressed and the request created.
C26_Witness ==
    /\ SaReturned /\ SaPressed
    /\ sa_in.thresh = 4000 /\ sa_in.a.open_accr = -5000 /\ sa_in.a.scales
    /\ SaResult.document_type = Some("memo_request")
    /\ SaResult.document_number = Some(1)

\* C27: when the dialog of the locate step is declined, settle_agreement
\* returns a result of severity Warning without document number, and
\* has neither read the sales volumes nor pressed Settle.
C27_DeclinedDialogReturnsWarning ==
    (SaDone /\ SaDeclined) =>
        /\ SaReturned
        /\ SaResult.message_type = Some("W")
        /\ SaResult.document_number = None
        /\ "sales_volume" \notin SaCmds
        /\ ~SaPressed

\* The last command of the call left the transaction at its start
\* screen with the agreement number field cleared after its last use.
EndsAtStartCleared(cmds) ==
    \E i, j \in 1..Len(cmds) :
        /\ cmds[i] = "start_transaction" /\ cmds[j] = "clear_input"
        /\ \A k \in 1..Len(cmds) :
              /\ cmds[k] = "set_number" => k < j
              /\ cmds[k] \notin {"start_transaction", "clear_input"} => k < i

\* C28: whenever settle_agreement returns a result, it has gone back to
\* the start screen and cleared the agreement number field.
C28_ReturnsAtStartCleared ==
    SaReturned => EndsAtStartCleared(sa_out[1].cmds)

\* C29: when Settle was pressed and the function is not available (no
\* dialog), settle_agreement returns a result of severity Error without
\* document number.
C29_UnavailableSettleReturnsError ==
    (SaDone /\ SaPressed /\ sa_in.a.press = "unavailable") =>
        /\ SaReturned
        /\ SaResult.message_type = Some("E")
        /\ SaResult.document_number = None

\* C30: for an agreement that only display is possible for,
\* settle_agreement returns severity Warning, kind credit_memo with the
\* number of the existing credit memo (None without one), the open value
\* and open accruals of the sales volumes, and does not press Settle.
C30_DisplayOnlyReportsCreditMemo ==
    (SaDone /\ ~SaDeclined /\ sa_in.a.sbar = "display") =>
        /\ SaReturned
        /\ SaResult.message_type = Some("W")
        /\ SaResult.document_type = Some("credit_memo")
        /\ SaResult.document_number = sa_in.a.memo
        /\ SaResult.open_value = Some(sa_in.a.open_val)
        /\ SaResult.open_accruals = Some(sa_in.a.open_accr)
        /\ "sales_volume" \in SaCmds
        /\ ~SaPressed

\* A display-only agreement that could otherwise be settled and has a
\* credit memo.
C30_Witness ==
    /\ SaReturned
    /\ sa_in.a.sbar = "display" /\ sa_in.a.status = "A"
    /\ sa_in.a.open_val = 0 /\ sa_in.a.scales
    /\ SaResult.document_number = Some(ExistingMemo)
    /\ SaResult.open_accruals = Some(5000)

\* The agreement is found and opened, may be settled by its status, has
\* no open value, and its accruals reach the threshold t with condition
\* scales left unchecked.
HeldByThreshold(a, t) ==
    /\ a.popup # "stale" /\ a.sbar = ""
    /\ a.status \notin {"C", "D"}
    /\ a.open_val = 0
    /\ Abs(a.open_accr) >= Max(1, t)
    /\ ~a.scales
IsThresholdRow(row) == row.Message = <<"threshold">>

C21_State ==
    /\ \A a \in OrchAgreements :
          HeldByThreshold(a, thresh) =>
              LET out == settle_agreement(a, next_doc, thresh, TRUE, FALSE)
              IN  /\ ~out.raised
                  /\ out.result.message_type = Some("E")
                  /\ out.result.message = Some(<<"threshold">>)
                  /\ out.result.document_number = None
                  /\ out.result.document_type = None
                  /\ "press_settle" \notin Elements(out.cmds)
    /\ \A i \in 1..Len(output) :
          IsThresholdRow(output[i]) =>
              /\ output[i].Credit_Memo = None
              /\ ~output[i].va02
              /\ output[i].Open_Value = Some(0)
              /\ Abs(output[i].Open_Accruals[1]) >= Max(1, thresh)

\* The step that records such a result leaves the batch files and the
\* external system's requests alone and goes to the next item.
C21_Step ==
    (opc = "loop" /\ oi <= n_items /\ output' # output
       /\ opc' # "idle" /\ IsThresholdRow(output'[oi])) =>
        /\ files' = files
        /\ next_doc' = next_doc
        /\ opc' = "loop" /\ oi' = oi + 1
        /\ ~va02_sess'

\* C21: an agreement held by the threshold gate gets a result of
\* severity Error that cites the threshold, without document number and
\* without Settle being pressed, and process_agreements appends nothing
\* to the batch file for it.
C21_ThresholdGateBlocks == []C21_State /\ [][C21_Step]_vars

\* A run over two items returned; the first was held by the threshold
\* gate with accruals of 50 EUR, and the batch file holds no number.
C21_Witness ==
    /\ opc = "done" /\ n_items = 2
    /\ IsThresholdRow(output[1])
    /\ output[1].Open_Accruals = Some(5000)
    /\ files[batch_idx] = EmptyRecord

C22_State ==
    (opc # "idle" /\ n_items = 0) =>
        /\ opc = "rejected"
        /\ batch_idx = 0
        /\ ~vbo2_sess /\ ~va02_sess
        /\ dump = None

C22_Step ==
    /\ (opc = "idle" /\ opc' # "idle" /\ n_items' = 0) =>
          (opc' = "rejected" /\ files' = files /\ next_doc' = next_doc)
    /\ opc = "rejected" =>
          (opc' = "idle" /\ files' = files /\ next_doc' = next_doc)

\* C22: process_agreements called with data without rows raises at
\* once: no batch file is created, neither VBO2 nor VA02 is started,
\* nothing is asked of the external system.
C22_EmptyWorkListRejected == []C22_State /\ [][C22_Step]_vars

\* The second run was given no rows: the only batch file is that of
\* the first run.
C22_Witness ==
    /\ opc = "rejected" /\ orun = 2
    /\ Cardinality({b \in FileIds : isfile(b)}) = 1

\* The finalization run has ended and had found no batch file.
FoundNothing == rpc = "exit" /\ batches = NoBatches /\ LoadableFiles = {}

C24_State ==
    FoundNothing =>
        /\ rexit = Some(0)
        /\ ~so01_sess
        /\ calls = <<>> /\ rb = 0
        /\ \A p \in plog : p[1] # rrun

C24_Step ==
    /\ (rpc = "idle" /\ rpc' # "idle" /\ LoadableFiles = {}) =>
          /\ rpc' = "exit" /\ rexit' = Some(0)
          /\ files' = files
          /\ ~so01_sess'
    /\ rpc = "exit" => (rpc' = "idle" /\ files' = files)

\* C24: a finalization run that finds no batch file returns 0; it does
\* not start SO01, calls process_workflow for no number and removes no
\* file.
C24_NoBatchesExitZero == []C24_State /\ [][C24_Step]_vars

\* The first finalization run worked a batch off and removed its file;
\* the second found nothing.
C24_Witness ==
    /\ FoundNothing /\ rexit = Some(0)
    /\ rrun = 2 /\ plog # {}


\* What the writer has appended so far.
Appended == SubSeq(want.credit_memos, 1, wrote)

\* C25: a batch created with a country and a company code and then given
\* the numbers of a list one by one reads back, at every point and when
\* load_data_batches loads it, as that country, that company code and
\* the numbers appended, in the order of the list.
C25_RoundTrip ==
    got_id # 0 =>
        /\ json_valid(files[got_id])
        /\ json_loads(files[got_id]) =
              [country |-> want.country, company_code |-> want.company_code,
               credit_memos |-> Appended]
        /\ reloaded # None =>
              /\ got_id \in DOMAIN reloaded[1]
              /\ reloaded[1][got_id] = want

\* A list of two numbers of several digits, written next to another
\* batch file and loaded with it.
C25_Witness ==
    /\ reloaded # None
    /\ want.credit_memos = <<305, 40>>
    /\ want.country = "CZ"
    /\ Cardinality(DOMAIN reloaded[1]) > 1
    /\ files[got_id].credit_memos = <<<<"3", "0", "5">>, <<"4", "0">>>>


\* main was ended by the mailbox lookup.
MessageNotFound == araised = Some("MessageNotFoundError")

\* C23: when get_message raises MessageNotFoundError in the initialization
\* phase, main returns 2, no report is created, no connection to SAP is
\* opened, no vbo2 or va02 session is started, and no batch file is
\* created.
C23_MessageNotFoundExitsTwo ==
    MessageNotFound =>
        /\ apc = "exited" /\ aexit = Some(2)
        /\ reports = 0
        /\ logins = 0 /\ ~app_sess
        /\ orun = 0 /\ opc = "idle"
        /\ ~vbo2_sess /\ ~va02_sess
        /\ batch_idx = 0
        /\ \A b \in FileIds : files[b] = NoFile

\* The lookup failed after the configuration was loaded.
C23_Witness ==
    /\ MessageNotFound
    /\ aexit = Some(2)
    /\ InitSteps[astep] = "input"



\* C39: every result of settle_agreement of kind memo_request carries a
\* document number.
C39_RequestCarriesNumber ==
    (SaReturned /\ SaResult.document_type = Some("memo_request")) =>
        SaResult.document_number # None



\* The row of a settle call that returned `res`.
RowOfResult(res, row) ==
    /\ row.Message = res.message[1]
    /\ row.Credit_Memo = res.document_number
    /\ row.Open_Value = res.open_value
    /\ row.Open_Accruals = res.open_accruals

\* Item i had its settle call return.
Recorded(i) == output[i].Message # <<>>

\* While a run goes on, the items before the loop's position are recorded,
\* the items after it are untouched, and the item at it is untouched
\* until its settle call returns.
C32_State ==
    (opc \in OrchRunning \cup {"done", "aborted"}) =>
        /\ Len(output) = n_items
        /\ \A i \in 1..n_items :
              /\ i < oi => Recorded(i)
              /\ i > oi => output[i] = BlankRow
              /\ (i = oi /\ opc = "loop") => output[i] = BlankRow
              /\ (i = oi /\ opc \in {"amend", "append_read", "append_trunc",
                                      "append_write"}) => Recorded(i)

\* A settle call that returns is the call for the item at the loop's
\* position, not settled before; its result goes to that item's row and
\* no other row changes; the loop moves by one item at a time.
C32_Step ==
    /\ (opc = "loop" /\ opc' \in {"loop", "amend"} /\ output' # output) =>
          /\ oi \in 1..n_items
          /\ ~Recorded(oi)
          /\ RowOfResult(result', output'[oi])
          /\ \A j \in 1..n_items : j # oi => output'[j] = output[j]
          /\ oi' = IF opc' = "loop" THEN oi + 1 ELSE oi
    /\ (opc \in OrchRunning /\ opc' # "idle") =>
          /\ oi' \in {oi, oi + 1}
          /\ \A j \in 1..Len(output) :
                (j # oi /\ j <= Len(output')) => output'[j] = output[j]

\* C32: process_agreements settles the items in input order, each once,
\* until the run ends or aborts, and writes the message, document number,
\* open value and open accruals of every result returned to the row of
\* its item and to no other row.
C32_InOrderOnOwnRow == []C32_State /\ [][C32_Step]_vars

\* A run over two items returned: the first row shows an open value, the
\* second a settlement with its request.
C32_Witness ==
    /\ opc = "done" /\ n_items = 2
    /\ output[1].Open_Value = Some(5) /\ output[1].Credit_Memo = None
    /\ output[2].document_type = Some("memo_request")
    /\ output[2].Credit_Memo # None
    /\ output[2].Open_Value = Some(0)



\* _close_popup_dialog was just called on the dialog ClosedOn.
JustClosed == dlast.mod # "" /\ dpc = "idle"
ClosedOn == dlast.pre[1]
AskedFor == IF dlast.confirm THEN "Yes" ELSE "No"

\* C37: _close_popup_dialog on a dialog that is not titled "Information"
\* and has no button of the caption asked for sends nothing and leaves
\* the dialog open; on a dialog titled "Information" it sends Enter
\* (confirm) or F12 (decline), whatever the buttons, and the dialog is
\* dismissed.
C37_NoMatchingButtonIsNoOp ==
    JustClosed =>
        /\ (ClosedOn.title # "Information" /\ AskedFor \notin ClosedOn.buttons)
              => (dlast.cmds = <<>> /\ wnds = dlast.pre)
        /\ ClosedOn.title = "Information"
              => /\ dlast.cmds = <<IF dlast.confirm THEN _press_enter
                                   ELSE _press_cancel>>
                 /\ wnds = Tail(dlast.pre)

\* vbo2 was asked to confirm a warning that has only an OK button, with
\* another dialog under it: both are still open.
C37_Witness ==
    /\ JustClosed
    /\ dlast.mod = "vbo2" /\ dlast.confirm
    /\ ClosedOn.title = "Warning" /\ ClosedOn.buttons = {"OK"}
    /\ Len(wnds) = 2

\* C40: each of the loops that dismiss dialogs until none is open comes
\* to an end, whatever dialogs the external system shows.
C40_LoopsTerminate ==
    \A l \in DialogLoops : (dpc = l) ~> (dpc \in {"done", "raised"})



\* A turn of the reopen loop that finds "being processed" sends one more
\* Enter and stays in the loop; a turn that does not find it sends
\* nothing and leaves the loop; nothing else leaves it.
C31_Step ==
    /\ (wpc = "poll" /\ stat_bar = BeingProcessed /\ wnds' = wnds
          /\ processing' = processing) =>
          /\ wpc' = "poll"
          /\ enters' = IF enters < MaxPolls THEN enters + 1 ELSE enters
          /\ stat_bar' = AfterEnter
    /\ (wpc = "poll" /\ wpc' # "poll") =>
          /\ stat_bar # BeingProcessed
          /\ enters' = enters /\ stat_bar' = stat_bar

\* C31: after a confirmed settlement _reopen_agreement sends Enter again
\* after every poll that finds "being processed" in the status bar and
\* stops as soon as a poll does not; once the external system is through,
\* the loop ends and settle_agreement returns; while it is not, the loop
\* goes on.
C31_ReopenLoop ==
    /\ [][C31_Step]_vars
    /\ [](wpc \in {"number", "leave", "returned"} => ~processing)
    /\ (<>(~processing)) => <>(wpc = "returned")

\* The count of Enter keys has reached its cap and the status bar still
\* reports "being processed".
C31_Witness ==
    /\ wpc = "poll" /\ enters = MaxPolls
    /\ stat_bar = BeingProcessed /\ processing



WfDone == wf_out # None
WfOut == wf_out[1]
\* The title is some text, the keyword, some text.
HasSubstring(title, kwd) ==
    \E a, b \in 0..Len(title) :
        /\ a + Len(kwd) + b = Len(title)
        /\ \A k \in 1..Len(kwd) : title[a + k] = kwd[k]
\* The rows whose title, once shown, contains the keyword.
WfMatching ==
    {i \in 1..Len(wf_in.items) :
        HasSubstring(wf_in.items[i].title, wf_in.kwd)}

\* C33: process_workflow returns True if and only if a row has a title
\* that contains the keyword, a blank title being read after the row was
\* selected; when it returns True it has opened and approved the first
\* such row and no other, when it returns False none.
C33_TrueIffMatch ==
    WfDone =>
        /\ WfOut.out = "True" <=> WfMatching # {}
        /\ WfOut.out = "True" =>
              /\ WfOut.opened = <<CHOOSE i \in WfMatching :
                                    \A j \in WfMatching : i <= j>>
              /\ WfOut.approved = WfOut.opened
        /\ WfOut.out = "False" =>
              WfOut.opened = <<>> /\ WfOut.approved = <<>>


CsoDone == cso_out # None
CsoOut == cso_out[1]
\* The number has nine digits and nothing else.
NineDigits == cso_in.num \in 100000000..999999999
AllUnset ==
    cso_in.print_invoice = None /\ cso_in.approvers = None
      /\ cso_in.att_path = None
\* The approvers the call is to add: a list of two or more.
ToAdd ==
    IF cso_in.approvers # None /\ Len(cso_in.approvers[1]) >= 2
    THEN cso_in.approvers[1] ELSE <<>>
EightDigits(app) == app \in 10000000..99999999
\* The call got as far as the partner table.
CsoChanging ==
    /\ cso_in.started /\ NineDigits /\ ~AllUnset
    /\ cso_in.open = "opened"
    /\ \A k \in 1..Len(ToAdd) : EightDigits(ToAdd[k])
\* The rows of the table that held a partner before the call.
Taken == {k \in 1..Len(cso_in.table) : cso_in.table[k] # <<>>}

\* C34: change_sales_order writes the approvers to the partner table
\* after the entries it finds, overwriting none of them however many rows
\* are free, in the order given, and only when every id has eight digits;
\* a list of fewer than two approvers adds nothing.
C34_ApproversAfterExisting ==
    CsoDone =>
        /\ \A k \in Taken : CsoOut.table[k] = cso_in.table[k]
        /\ (CsoChanging /\ ToAdd # <<>>) =>
              \E first \in 1..Len(CsoOut.table) :
                  /\ \A k \in Taken : k < first
                  /\ \A n \in 1..Len(ToAdd) :
                        /\ first + n - 1 <= Len(CsoOut.table)
                        /\ Number(CsoOut.table[first + n - 1]) = ToAdd[n]
        /\ (\E k \in 1..Len(ToAdd) : ~EightDigits(ToAdd[k]))
              => CsoOut.table = cso_in.table
        /\ ToAdd = <<>> => CsoOut.table = cso_in.table

\* The file attachment of the call fails: the file is missing, or the
\* attachment list cannot be opened.
AttachFails ==
    /\ CsoChanging
    /\ cso_in.att_path # None
    /\ cso_in.att_path = Some("missing") \/ ~cso_in.attachments

\* C35: when the file attachment fails in change_sales_order, the order
\* is saved before the error is raised, with the invoice printing and the
\* approvers the call has set; a missing file raises FileNotFoundError,
\* an attachment list that cannot be opened RuntimeError.
C35_SavedBeforeAttachError ==
    (CsoDone /\ AttachFails) =>
        /\ CsoOut.out = IF cso_in.att_path = Some("missing")
                        THEN "FileNotFoundError" ELSE "RuntimeError"
        /\ CsoOut.cmds[Len(CsoOut.cmds)] = "save"
        /\ CsoOut.saved = Some(CsoOut.table)
        /\ cso_in.print_invoice # None => "toggle" \in Elements(CsoOut.cmds)
        /\ ToAdd # <<>> => "add" \in Elements(CsoOut.cmds)

\* The file is missing; invoice printing was switched off and two
\* approvers were added to the free rows, and all of it was saved.
C35_Witness ==
    /\ CsoDone /\ AttachFails
    /\ CsoOut.out = "FileNotFoundError"
    /\ cso_in.print_invoice = Some(FALSE)
    /\ cso_in.table = <<<<>>, <<>>>>
    /\ CsoOut.saved = Some(<<Digits(10000001), Digits(10000002)>>)

\* C36: change_sales_order raises for a number that is not nine digits
\* before it does anything on the external system; for a number of nine
\* digits with print_invoice, approvers and att_path all unset it returns
\* without opening the order, changing or saving anything.
C36_RejectsOrReturnsUntouched ==
    CsoDone =>
        /\ ~NineDigits =>
              /\ CsoOut.out \in {"ValueError", "TransactionClosedError"}
              /\ cso_in.started => CsoOut.out = "ValueError"
              /\ CsoOut.cmds = <<>>
              /\ CsoOut.table = cso_in.table /\ CsoOut.saved = None
        /\ (NineDigits /\ AllUnset) =>
              /\ cso_in.started => CsoOut.out = "returned"
              /\ CsoOut.cmds = <<>>
              /\ CsoOut.table = cso_in.table /\ CsoOut.saved = None

\* A number of eight digits and a sign, nine characters long, was given
\* with approvers to add: ValueError, and the order was not opened.
C36_Witness ==
    /\ CsoDone
    /\ cso_in.started /\ cso_in.num = -12345678
    /\ ToAdd # <<>>
    /\ CsoOut.out = "ValueError" /\ CsoOut.cmds = <<>>



\* Number n was given to process_workflow in some finalization run.
Attempted(n) == \E r \in 1..MaxRuns : <<r, n>> \in plog

\* A file that is removed holds only numbers that were attempted, and
\* _update_batch_data finds the file it is to append to.
C38_Step ==
    /\ \A b \in FileIds :
          (files[b] # NoFile /\ files'[b] = NoFile) =>
              \A n \in Elements(StoredMemos(b)) : Attempted(n)
    /\ (opc = "append_read" /\ opc' # "append_read") => opc' = "append_trunc"

\* C38: when an interactive run and a finalization run overlap on the same
\* data directory, every number the interactive run appends to a batch
\* file is given to process_workflow before the file is removed, and no
\* append of the interactive run fails.
C38_NoNumberLost == [][C38_Step]_vars


=========================================================================
